---- MODULE Spec2Model ----
(***************************************************************************)
(* A model of src/video_processor.py: the timestamp normalizer, the three  *)
(* transcript parsers, the turn consolidator and metrics aggregator, the   *)
(* frame merge / downsample steps, the temporal aligner, the run of main   *)
(* and process_video, and the collection loop of extract_baseline_frames.  *)
(*                                                                         *)
(* Each component is exercised by a specification of its own (SpecFrames,  *)
(* SpecAlign, ...).  All of them share the variables below; a              *)
(* specification leaves the variables of the other components at Idle.     *)
(***************************************************************************)
EXTENDS Integers, Sequences, FiniteSets, TLC

VARIABLES
    \* ---- frame sampler: merge_frames and the downsample step of process_video
    baseline,        \* list of (timestamp, filename) from extract_baseline_frames
    scene_changes,   \* list of (timestamp, filename) from detect_scene_changes
    min_gap,         \* merge_frames' min_gap argument
    target_frames,   \* process_video's target_frames argument
    all_frames,      \* process_video's all_frames local
    fpc,             \* position in process_video: "start", "merged", "sampled", "raised"
    \* ---- temporal aligner: one call of find_transcript_segment
    al_timestamp,    \* the timestamp argument, in tenths of a second
    al_segments,     \* the segments argument
    al_result,       \* the returned (text, speaker_id, speaker_name)
    al_pc,           \* "call", "returned"
    \* ---- timestamp normalizer: parse_timestamp, then seconds_to_timestamp
    ts_text,         \* the string given to parse_timestamp, a list of characters
    ts_written,      \* how ts_text was written: its notation and its fields
    ts_seconds,      \* parse_timestamp's result, in milliseconds
    ts_display,      \* seconds_to_timestamp's result, a list of characters
    ts_pc,           \* "text", "parsed", "shown"
    \* ---- transcript parsers: one call of parse_vtt, parse_srt or parse_plain_text
    p_format,        \* which parser runs: "vtt", "srt", "plain"
    p_doc,           \* the document as written: a list of pieces, each some lines
    p_lines,         \* parse_vtt, parse_plain_text: lines; parse_srt: blocks
    p_i,             \* index of the next line (block, item) the loop visits
    p_items,         \* parse_plain_text's parsed_items
    p_speaker_counter, \* speaker_counter: label -> speaker id
    p_segments,      \* segments
    p_pc,            \* "call", "loop", "convert", "returned"
    \* ---- turn consolidator and metrics aggregator: compute_speaker_metrics
    m_segments,      \* the segments argument
    m_i,             \* index of the next element the running loop visits
    current_speaker, \* locals of the first loop (lines 364-367, 387)
    current_speaker_name,
    current_start,
    current_end,
    current_text_parts,
    speaker_segments, \* the consolidated turns
    speaker_data,    \* speaker_id -> talk_time, word_count, turns, speaker_name
    total_talk_time,
    total_turns,
    metrics,         \* the returned list of SpeakerMetrics
    m_pc,            \* "call", "turns", "aggregate", "returned"
    \* ---- the run of main and process_video, with what is outside the program
    video_exists,    \* os.path.exists(args.video)
    transcript_exists, \* os.path.exists(args.transcript)
    ffmpeg_found,    \* the ffmpeg executable is on the path
    ffprobe_found,   \* the ffprobe executable is on the path
    video_duration,  \* what ffprobe reports when it succeeds, in tenths of a second
    files_written,   \* how many frame_NNNN.jpg a successful interval extraction writes
    reported_scenes, \* the pts_time values a successful scene detection reports
    transcript_segments, \* what parse_transcript returns for the transcript file
    pl_target_frames, \* args.target_frames
    pl_pc,           \* position in main / process_video
    frames_dir_made, \* os.makedirs(frames_dir) was executed
    pl_segments,     \* process_video's segments
    speaker_metrics, \* None before compute_speaker_metrics, then "computed"
    pl_duration,     \* the duration local of the function that runs
    frames_on_disk,  \* how many frame_NNNN.jpg files exist in frames_dir
    pl_frame_num,    \* extract_baseline_frames' frame_num
    baseline_frames,
    scene_times,
    scene_index,     \* i of the loop over scene_times (1-based)
    scene_frames,
    pl_all_frames,
    output_frames,
    index,           \* the index dict, in a list that is empty before it is built
    calls,           \* how often each external command was run
    failed_calls,    \* the external commands that ran and failed
    phases,          \* the phases of process_video begun so far, in order
    index_writes,    \* how often index.json was written
    exit_status,     \* "running", then "exit 0" or "exit 1"
    \* ---- the collection loop of extract_baseline_frames, in Python's floats
    c_duration,      \* duration, as get_video_duration returned it
    c_interval,      \* the interval argument
    c_files,         \* frame_0001.jpg .. frame_(c_files).jpg exist in output_dir
    c_timestamp,     \* the timestamp local
    c_frame_num,     \* the frame_num local
    c_visited,       \* the values timestamp had at the passes made so far
    c_frames,        \* the frames list
    c_pc             \* "loop", then "returned"

frameVars == <<baseline, scene_changes, min_gap, target_frames, all_frames, fpc>>
alignVars == <<al_timestamp, al_segments, al_result, al_pc>>

tsVars == <<ts_text, ts_written, ts_seconds, ts_display, ts_pc>>

parseVars == <<p_format, p_doc, p_lines, p_i, p_items, p_speaker_counter,
               p_segments, p_pc>>

metricVars == <<m_segments, m_i, current_speaker, current_speaker_name,
                current_start, current_end, current_text_parts, speaker_segments,
                speaker_data, total_talk_time, total_turns, metrics, m_pc>>

envVars == <<video_exists, transcript_exists, ffmpeg_found, ffprobe_found,
             video_duration, files_written, reported_scenes, transcript_segments,
             pl_target_frames>>

runVars == <<pl_pc, frames_dir_made, pl_segments, speaker_metrics, pl_duration,
             frames_on_disk, pl_frame_num, baseline_frames, scene_times, scene_index,
             scene_frames, pl_all_frames, output_frames, index, calls,
             failed_calls, phases, index_writes, exit_status>>

pipeVars == <<envVars, runVars>>

collectVars == <<c_duration, c_interval, c_files, c_timestamp, c_frame_num,
                 c_visited, c_frames, c_pc>>

vars == <<frameVars, alignVars, tsVars, parseVars, metricVars, pipeVars, collectVars>>

\* The variables of the components a specification does not run.
FramesIdle ==
    /\ baseline = "idle" /\ scene_changes = "idle" /\ min_gap = "idle"
    /\ target_frames = "idle" /\ all_frames = "idle" /\ fpc = "idle"
AlignIdle ==
    /\ al_timestamp = "idle" /\ al_segments = "idle"
    /\ al_result = "idle" /\ al_pc = "idle"
TsIdle ==
    /\ ts_text = "idle" /\ ts_written = "idle" /\ ts_seconds = "idle"
    /\ ts_display = "idle" /\ ts_pc = "idle"
ParseIdle ==
    /\ p_format = "idle" /\ p_doc = "idle" /\ p_lines = "idle" /\ p_i = "idle"
    /\ p_items = "idle" /\ p_speaker_counter = "idle" /\ p_segments = "idle"
    /\ p_pc = "idle"
MetricsIdle ==
    /\ m_segments = "idle" /\ m_i = "idle" /\ current_speaker = "idle"
    /\ current_speaker_name = "idle" /\ current_start = "idle"
    /\ current_end = "idle" /\ current_text_parts = "idle"
    /\ speaker_segments = "idle" /\ speaker_data = "idle"
    /\ total_talk_time = "idle" /\ total_turns = "idle" /\ metrics = "idle"
    /\ m_pc = "idle"
PipeIdle ==
    /\ video_exists = "idle" /\ transcript_exists = "idle"
    /\ ffmpeg_found = "idle" /\ ffprobe_found = "idle"
    /\ video_duration = "idle" /\ files_written = "idle"
    /\ reported_scenes = "idle" /\ transcript_segments = "idle"
    /\ pl_target_frames = "idle" /\ pl_pc = "idle" /\ frames_dir_made = "idle"
    /\ pl_segments = "idle" /\ speaker_metrics = "idle" /\ pl_duration = "idle"
    /\ frames_on_disk = "idle" /\ pl_frame_num = "idle" /\ baseline_frames = "idle"
    /\ scene_times = "idle" /\ scene_index = "idle" /\ scene_frames = "idle"
    /\ pl_all_frames = "idle" /\ output_frames = "idle" /\ index = "idle"
    /\ calls = "idle" /\ failed_calls = "idle" /\ phases = "idle"
    /\ index_writes = "idle" /\ exit_status = "idle"
CollectIdle ==
    /\ c_duration = "idle" /\ c_interval = "idle" /\ c_files = "idle"
    /\ c_timestamp = "idle" /\ c_frame_num = "idle" /\ c_visited = "idle"
    /\ c_frames = "idle" /\ c_pc = "idle"

\* Python's None
None == "None"

(***************************************************************************)
(* Frame sampler                                                           *)
(***************************************************************************)

\* Largest candidate timestamp drawn (timestamps are whole units of time).
MaxT == 4
\* Longest scene-change candidate list drawn.
MaxScene == 2
\* Largest min_gap drawn; the default of merge_frames, 2.0, is among them.
MaxGap == 2
\* Largest target_frames drawn.
MaxTarget == 2

TimeStamps == 0..MaxT
\* target_frames is argparse type=int: zero and negative values are accepted.
TargetValues == (-1)..MaxTarget

\* f'frame_{frame_num:04d}.jpg' and f'scene_{i:04d}.jpg'
FrameFile(frame_num) == <<"frame", frame_num>>
SceneFile(i) == <<"scene", i>>

\* The ascending list of the elements of a finite set of integers.
RECURSIVE SetToSortedSeq(_)
SetToSortedSeq(S) ==
    IF S = {} THEN << >>
    ELSE LET m == CHOOSE x \in S : \A y \in S : x <= y
         IN  <<m>> \o SetToSortedSeq(S \ {m})

\* extract_baseline_frames' collection loop with interval = 1 unit: timestamp
\* k is paired with frame_(k+1), and kept if that file exists (S: the
\* timestamps whose file exists).
BaselineOf(S) ==
    LET ts == SetToSortedSeq(S)
    IN  [k \in 1..Len(ts) |-> <<ts[k], FrameFile(ts[k] + 1)>>]

\* detect_scene_changes: the i-th reported instant is paired with scene_i.
SceneOf(times) == [k \in 1..Len(times) |-> <<times[k], SceneFile(k - 1)>>]

SeqsUpTo(S, n) == UNION {[1..k -> S] : k \in 0..n}

\* list.sort(key=lambda x: x[0]): stable, ascending by timestamp.
RECURSIVE InsertByTime(_, _)
InsertByTime(sorted, x) ==
    IF sorted = << >> THEN <<x>>
    ELSE IF sorted[Len(sorted)][1] <= x[1] THEN Append(sorted, x)
    ELSE Append(InsertByTime(SubSeq(sorted, 1, Len(sorted) - 1), x),
                sorted[Len(sorted)])

RECURSIVE SortByTime(_)
SortByTime(s) ==
    IF s = << >> THEN << >>
    ELSE InsertByTime(SortByTime(SubSeq(s, 1, Len(s) - 1)), s[Len(s)])

\* The loop of merge_frames over the sorted candidates from index k on.
RECURSIVE MergeLoop(_, _, _, _, _)
MergeLoop(sorted, k, merged, last_time, gap) ==
    IF k > Len(sorted) THEN merged
    ELSE IF sorted[k][1] - last_time >= gap
         THEN MergeLoop(sorted, k + 1, Append(merged, sorted[k]), sorted[k][1], gap)
         ELSE MergeLoop(sorted, k + 1, merged, last_time, gap)

\* A mutant of the loop: last_time is not updated when a candidate is kept.
RECURSIVE MergeLoopStaleLast(_, _, _, _, _)
MergeLoopStaleLast(sorted, k, merged, last_time, gap) ==
    IF k > Len(sorted) THEN merged
    ELSE IF sorted[k][1] - last_time >= gap
         THEN MergeLoopStaleLast(sorted, k + 1, Append(merged, sorted[k]), last_time, gap)
         ELSE MergeLoopStaleLast(sorted, k + 1, merged, last_time, gap)

merge_frames_stale(b, sc, gap) ==
    MergeLoopStaleLast(SortByTime(b \o sc), 1, << >>, 0 - gap, gap)

\* A mutant of the concatenation: scene_changes + baseline.
merge_frames_scene_first(b, sc, gap) ==
    MergeLoop(SortByTime(sc \o b), 1, << >>, 0 - gap, gap)

merge_frames(b, sc, gap) ==
    MergeLoop(SortByTime(b \o sc), 1, << >>, 0 - gap, gap)

\* A mutant of the index: the step taken upside down (target / len), so that
\* indices repeat.
DownsampleIndexInverted(i, n, target) == (i * target) \div n

\* [all_frames[int(i * step)] for i in range(target)], step = len / target,
\* for target > 0.  int(i * len / target) is computed exactly here; the
\* float product i * (len / target) falls one short of it only when target
\* divides i * len, and not for lists shorter than 30.
DownsampleIndex(i, n, target) == (i * n) \div target

Downsampled(frames, target) ==
    [j \in 1..target |-> frames[DownsampleIndex(j - 1, Len(frames), target) + 1]]

InitFrames ==
    /\ \E S \in SUBSET TimeStamps : baseline = BaselineOf(S)
    /\ \E times \in SeqsUpTo(TimeStamps, MaxScene) : scene_changes = SceneOf(times)
    /\ min_gap \in 1..MaxGap
    /\ target_frames \in TargetValues
    /\ all_frames = << >>
    /\ fpc = "start"
    /\ AlignIdle /\ TsIdle /\ ParseIdle /\ MetricsIdle /\ PipeIdle /\ CollectIdle

\* process_video lines 632-634: all_frames = merge_frames(baseline, scene)
MergeFrames ==
    /\ fpc = "start"
    /\ all_frames' = merge_frames(baseline, scene_changes, min_gap)
    /\ fpc' = "merged"
    /\ UNCHANGED <<baseline, scene_changes, min_gap, target_frames>>
    /\ UNCHANGED <<alignVars, tsVars, parseVars, metricVars, pipeVars, collectVars>>

\* process_video lines 636-640: the merged list is downsampled when it is
\* longer than target_frames.  len / 0 raises ZeroDivisionError; for a
\* negative target range(target) is empty.
Downsample ==
    /\ fpc = "merged"
    /\ IF Len(all_frames) > target_frames
       THEN IF target_frames = 0
            THEN /\ fpc' = "raised"
                 /\ UNCHANGED all_frames
            ELSE /\ all_frames' = IF target_frames < 0 THEN << >>
                                  ELSE Downsampled(all_frames, target_frames)
                 /\ fpc' = "sampled"
       ELSE /\ fpc' = "sampled"
            /\ UNCHANGED all_frames
    /\ UNCHANGED <<baseline, scene_changes, min_gap, target_frames>>
    /\ UNCHANGED <<alignVars, tsVars, parseVars, metricVars, pipeVars, collectVars>>

NextFrames == MergeFrames \/ Downsample

SpecFrames == InitFrames /\ [][NextFrames]_vars

\* ---- properties of the frame sampler

Timestamps(frames) == [k \in 1..Len(frames) |-> frames[k][1]]

Ascending(ts) == \A i \in 1..(Len(ts) - 1) : ts[i] <= ts[i + 1]

\* a is b with some elements left out, the rest in b's order.
RECURSIVE IsSubSeqOf(_, _)
IsSubSeqOf(a, b) ==
    IF a = << >> THEN TRUE
    ELSE IF b = << >> THEN FALSE
    ELSE IF Head(a) = Head(b) THEN IsSubSeqOf(Tail(a), Tail(b))
    ELSE IsSubSeqOf(a, Tail(b))

\* C1: in the list merge_frames returns, any two consecutive frames are at
\* least min_gap apart: timestamp[i+1] - timestamp[i] >= min_gap.
C1_MergeMinGap ==
    fpc = "merged" =>
        \A i \in 1..(Len(all_frames) - 1) :
            all_frames[i + 1][1] - all_frames[i][1] >= min_gap

\* C1's case: a merge of both lists that kept several frames and dropped a
\* candidate closer than min_gap to the last kept one.
C1_Witness ==
    /\ fpc = "merged"
    /\ min_gap = 2
    /\ baseline # << >> /\ scene_changes # << >>
    /\ Len(all_frames) >= 2
    /\ Len(all_frames) < Len(baseline) + Len(scene_changes)

\* C2: whenever the merged list is longer than target_frames, the downsample
\* step leaves exactly target_frames frames, in the chronological order of
\* the merged list, for every target_frames the count can exceed (stated for
\* target_frames >= 0: no list has a negative count).
C2_DownsampleExact ==
    (fpc \in {"sampled", "raised"} /\ target_frames >= 0
        /\ Len(merge_frames(baseline, scene_changes, min_gap)) > target_frames) =>
            /\ fpc = "sampled"
            /\ Len(all_frames) = target_frames
            /\ IsSubSeqOf(all_frames, merge_frames(baseline, scene_changes, min_gap))
            /\ Ascending(Timestamps(all_frames))

\* What the downsample step does guarantee: for target_frames >= 1 the count
\* is exactly target_frames and the order is that of the merged list.
DownsamplePositiveTarget ==
    (fpc \in {"sampled", "raised"} /\ target_frames >= 1
        /\ Len(merge_frames(baseline, scene_changes, min_gap)) > target_frames) =>
            /\ fpc = "sampled"
            /\ Len(all_frames) = target_frames
            /\ IsSubSeqOf(all_frames, merge_frames(baseline, scene_changes, min_gap))
            /\ Ascending(Timestamps(all_frames))

\* C16 as the code behaves: downsampling never brings two frames closer than
\* min_gap.  Whenever the merged list is longer than a target >= 1, the
\* downsampled list takes the merged list's frames at strictly increasing
\* indices, so any two consecutive frames of it are at least min_gap apart.
C16_DownsampleKeepsMinGap ==
    (fpc = "sampled" /\ target_frames >= 1
        /\ Len(merge_frames(baseline, scene_changes, min_gap)) > target_frames) =>
            /\ \A i \in 1..(Len(all_frames) - 1) :
                    all_frames[i + 1][1] - all_frames[i][1] >= min_gap
            /\ \A i \in 1..(target_frames - 1) :
                    DownsampleIndex(i, Len(merge_frames(baseline, scene_changes, min_gap)), target_frames)
                        > DownsampleIndex(i - 1, Len(merge_frames(baseline, scene_changes, min_gap)), target_frames)

\* C16's case: a merged list of three or more frames, min_gap 2, downsampled
\* to two frames with a step that is not a whole number.
C16_Witness ==
    /\ fpc = "sampled"
    /\ min_gap = 2
    /\ target_frames = 2
    /\ Len(merge_frames(baseline, scene_changes, min_gap)) = 3
    /\ Len(all_frames) = 2
    /\ baseline # << >> /\ scene_changes # << >>

\* C16 as stated: there exist a merged list satisfying the minimum gap and a
\* target smaller than its length for which two consecutive frames of the
\* downsampled list are closer than min_gap.  The lists and targets are
\* those the frame selection draws its inputs from.
C16_DownsampleBreaksMinGap ==
    fpc \in {"start", "merged", "sampled", "raised"} =>
    \E S \in SUBSET TimeStamps, times \in SeqsUpTo(TimeStamps, MaxScene),
       gap \in 1..MaxGap, target \in 1..MaxTarget :
        LET merged == merge_frames(BaselineOf(S), SceneOf(times), gap)
            sampled == Downsampled(merged, target)
        IN  /\ target < Len(merged)
            /\ \A i \in 1..(Len(merged) - 1) : merged[i + 1][1] - merged[i][1] >= gap
            /\ \E i \in 1..(target - 1) : sampled[i + 1][1] - sampled[i][1] < gap

\* The candidates of a merge and the frames kept.
Candidates == {baseline[k] : k \in 1..Len(baseline)}
                  \cup {scene_changes[k] : k \in 1..Len(scene_changes)}
Kept == {all_frames[k] : k \in 1..Len(all_frames)}

\* c comes before d in the sorted candidates: earlier timestamp, or the same
\* timestamp and earlier in baseline + scene_changes.
PositionOf(c) ==
    CHOOSE k \in 1..(Len(baseline) + Len(scene_changes)) :
        (baseline \o scene_changes)[k] = c
Precedes(c, d) ==
    c[1] < d[1] \/ (c[1] = d[1] /\ PositionOf(c) < PositionOf(d))

\* C20: merge_frames keeps candidates only; every candidate it drops is less
\* than min_gap later than a kept candidate that precedes it in sorted order;
\* the earliest candidate (timestamps are >= 0) is kept; of a baseline and a
\* scene-change candidate with equal timestamps the scene-change one is
\* never kept, whenever one of the two is kept it is the baseline one.
C20_DropsOnlyWithinGap ==
    fpc = "merged" =>
        /\ Kept \subseteq Candidates
        /\ \A c \in Candidates \ Kept :
               \E k \in Kept : Precedes(k, c) /\ c[1] - k[1] < min_gap
        /\ \A c \in Candidates :
               (\A d \in Candidates \ {c} : Precedes(c, d)) => c \in Kept
        /\ \A i \in 1..Len(baseline), j \in 1..Len(scene_changes) :
               baseline[i][1] = scene_changes[j][1] => scene_changes[j] \notin Kept

\* C20's case: min_gap 2, the earliest candidate at 0, a baseline and a
\* scene-change candidate with the same timestamp of which the baseline one is
\* kept, and a later candidate dropped for being too close to it.
C20_Witness ==
    /\ fpc = "merged"
    /\ min_gap = 2
    /\ \E c \in Kept : c[1] = 0
    /\ \E i \in 1..Len(baseline), j \in 1..Len(scene_changes) :
           /\ baseline[i][1] = scene_changes[j][1]
           /\ baseline[i][1] > 0
           /\ baseline[i] \in Kept
           /\ \E c \in Candidates \ Kept : c[1] > baseline[i][1]

(***************************************************************************)
(* Temporal aligner: find_transcript_segment                               *)
(* Times are in tenths of a second.                                        *)
(***************************************************************************)

\* Longest segment list drawn.
MaxSegs == 3
\* "min_diff < 10": ten seconds, in tenths of a second.
Tolerance == 100

\* Speaker labels of the drawn segments (None: an unlabelled segment).
Labels == {None, "Alice", "Bob"}
SegStarts == {0, 30, 99, 100}
SegDurations == {30, 40}
FrameTimes == {0, 29, 30, 50, 200}

TextOf(label) ==
    CASE label = "Alice" -> "Hello there"
      [] label = "Bob" -> "Hi Alice, good to see you"
      [] OTHER -> "Welcome everyone"

\* The distinct labels of raw[1..k], None excluded.
LabelsSeen(raw, k) == {raw[j].label : j \in 1..k} \ {None}

\* f"speaker_{len(speaker_counter) + 1}"
SpeakerIdNames ==
    <<"speaker_1", "speaker_2", "speaker_3", "speaker_4", "speaker_5",
      "speaker_6", "speaker_7", "speaker_8", "speaker_9">>
SpeakerId(n) == SpeakerIdNames[n]

\* The identifier a parser's speaker_counter gives the label of raw[k]: the
\* labels are numbered in the order first seen.
FirstSeenId(raw, k) ==
    IF raw[k].label = None THEN None
    ELSE LET first == CHOOSE j \in 1..k :
                          /\ raw[j].label = raw[k].label
                          /\ \A h \in 1..(j - 1) : raw[h].label # raw[k].label
         IN  SpeakerId(Cardinality(LabelsSeen(raw, first)))

\* TranscriptSegment
TranscriptSegment(start, end, text, speaker_id, speaker_name) ==
    [start_seconds |-> start, end_seconds |-> end, text |-> text,
     speaker_id |-> speaker_id, speaker_name |-> speaker_name]

\* The <<start, duration>> pairs drawn.
SegSpans == {<<0, 30>>, <<0, 40>>, <<30, 40>>, <<99, 30>>, <<100, 30>>}
RawSegments ==
    {r \in [start : SegStarts, dur : SegDurations, label : Labels] :
        <<r.start, r.dur>> \in SegSpans}

\* The segment list a parser hands on for the raw cues: identifiers in
\* first-seen order.
SegmentsOf(raw) ==
    [k \in 1..Len(raw) |->
        TranscriptSegment(raw[k].start, raw[k].start + raw[k].dur,
                          TextOf(raw[k].label), FirstSeenId(raw, k), raw[k].label)]

Abs(x) == IF x < 0 THEN 0 - x ELSE x

Triple(segment) == <<segment.text, segment.speaker_id, segment.speaker_name>>
NoTranscript == <<"[No transcript available]", None, None>>

\* First loop: the index of the first segment with start <= timestamp <= end,
\* 0 when the loop ends without returning.
RECURSIVE FirstEnclosing(_, _, _)
FirstEnclosing(timestamp, segments, k) ==
    IF k > Len(segments) THEN 0
    ELSE IF /\ segments[k].start_seconds <= timestamp
            /\ timestamp <= segments[k].end_seconds
         THEN k
         ELSE FirstEnclosing(timestamp, segments, k + 1)

\* Mutant of the second loop: the test is "diff <= min_diff".
RECURSIVE ClosestLoopLastWins(_, _, _, _, _)
ClosestLoopLastWins(timestamp, segments, k, closest, min_diff) ==
    IF k > Len(segments) THEN <<closest, min_diff>>
    ELSE LET diff == Abs(segments[k].start_seconds - timestamp)
         IN  IF closest = 0 \/ diff <= min_diff
             THEN ClosestLoopLastWins(timestamp, segments, k + 1, k, diff)
             ELSE ClosestLoopLastWins(timestamp, segments, k + 1, closest, min_diff)

\* Second loop: <<closest, min_diff>> after the segments from index k on;
\* closest = 0 stands for None, and min_diff is then float('inf').
RECURSIVE ClosestLoop(_, _, _, _, _)
ClosestLoop(timestamp, segments, k, closest, min_diff) ==
    IF k > Len(segments) THEN <<closest, min_diff>>
    ELSE LET diff == Abs(segments[k].start_seconds - timestamp)
         IN  IF closest = 0 \/ diff < min_diff
             THEN ClosestLoop(timestamp, segments, k + 1, k, diff)
             ELSE ClosestLoop(timestamp, segments, k + 1, closest, min_diff)

\* Mutant: the tolerance test is "min_diff <= 10".
find_transcript_segment_le(timestamp, segments) ==
    LET hit == FirstEnclosing(timestamp, segments, 1)
        c == ClosestLoop(timestamp, segments, 1, 0, 0)
    IN  IF hit # 0 THEN Triple(segments[hit])
        ELSE IF c[1] # 0 /\ c[2] <= Tolerance THEN Triple(segments[c[1]])
        ELSE NoTranscript

\* Mutant: the first loop is left out, the nearest start decides alone.
find_transcript_segment_nearest(timestamp, segments) ==
    LET c == ClosestLoop(timestamp, segments, 1, 0, 0)
    IN  IF c[1] # 0 /\ c[2] < Tolerance THEN Triple(segments[c[1]])
        ELSE NoTranscript

find_transcript_segment(timestamp, segments) ==
    LET hit == FirstEnclosing(timestamp, segments, 1)
        c == ClosestLoop(timestamp, segments, 1, 0, 0)
    IN  IF hit # 0 THEN Triple(segments[hit])
        ELSE IF c[1] # 0 /\ c[2] < Tolerance THEN Triple(segments[c[1]])
        ELSE NoTranscript

InitAlign ==
    /\ al_timestamp \in FrameTimes
    /\ \E raw \in SeqsUpTo(RawSegments, MaxSegs) : al_segments = SegmentsOf(raw)
    /\ al_result = None
    /\ al_pc = "call"
    /\ FramesIdle /\ TsIdle /\ ParseIdle /\ MetricsIdle /\ PipeIdle /\ CollectIdle

\* process_video line 649: one call of find_transcript_segment.
FindTranscriptSegment ==
    /\ al_pc = "call"
    /\ al_result' = find_transcript_segment(al_timestamp, al_segments)
    /\ al_pc' = "returned"
    /\ UNCHANGED <<al_timestamp, al_segments>>
    /\ UNCHANGED <<frameVars, tsVars, parseVars, metricVars, pipeVars, collectVars>>

NextAlign == FindTranscriptSegment

SpecAlign == InitAlign /\ [][NextAlign]_vars

\* ---- properties of the temporal aligner

Encloses(segment, t) == segment.start_seconds <= t /\ t <= segment.end_seconds

Enclosing(segments, t) == {k \in 1..Len(segments) : Encloses(segments[k], t)}

StartDiff(segments, k, t) == Abs(segments[k].start_seconds - t)

\* The segments whose start is nearest to t.
Nearest(segments, t) ==
    {k \in 1..Len(segments) :
        \A j \in 1..Len(segments) : StartDiff(segments, k, t) <= StartDiff(segments, j, t)}

\* C3: when no segment encloses the frame's timestamp T, the segment whose
\* start is nearest to T is returned if and only if that distance is strictly
\* less than 10 seconds; otherwise, and for an empty list, the sentinel with
\* no speaker_id and no speaker_name is returned.
C3_NearestWithinTolerance ==
    (al_pc = "returned" /\ Enclosing(al_segments, al_timestamp) = {}) =>
        IF \E k \in Nearest(al_segments, al_timestamp) :
               StartDiff(al_segments, k, al_timestamp) < Tolerance
        THEN /\ \E k \in Nearest(al_segments, al_timestamp) :
                    al_result = Triple(al_segments[k])
             /\ al_result # NoTranscript
        ELSE al_result = NoTranscript

\* C3's case: no segment encloses T, one starts at T + 10.0 and the nearest
\* at T + 9.9, which is linked.
C3_Witness ==
    /\ al_pc = "returned"
    /\ Len(al_segments) = 2
    /\ Enclosing(al_segments, al_timestamp) = {}
    /\ al_segments[1].start_seconds = al_timestamp + Tolerance
    /\ al_segments[2].start_seconds = al_timestamp + Tolerance - 1
    /\ al_result = Triple(al_segments[2])
    /\ al_result[3] = "Bob"

\* C4: when some segment has start <= T <= end (both inclusive), the text and
\* speaker of the first such segment in document order are returned, whether
\* or not another segment starts nearer to T.
C4_FirstEnclosingWins ==
    (al_pc = "returned" /\ Enclosing(al_segments, al_timestamp) # {}) =>
        \E k \in Enclosing(al_segments, al_timestamp) :
            /\ \A j \in Enclosing(al_segments, al_timestamp) : k <= j
            /\ al_result = Triple(al_segments[k])

\* C4's case: Alice at 0-3 s, Bob at 3-7 s, a frame at t = 5 s is aligned to
\* Bob's segment, speaker_2.
C4_Witness ==
    /\ al_pc = "returned"
    /\ al_timestamp = 50
    /\ Len(al_segments) = 2
    /\ al_segments[1] = TranscriptSegment(0, 30, "Hello there", SpeakerId(1), "Alice")
    /\ al_segments[2] = TranscriptSegment(30, 70, "Hi Alice, good to see you",
                                          SpeakerId(2), "Bob")
    /\ al_result = <<"Hi Alice, good to see you", SpeakerId(2), "Bob">>

\* The first of a non-empty set of indices.
FirstOf(S) == CHOOSE k \in S : \A j \in S : k <= j

\* The places where a segment ends at t and the next one starts at t.
MeetingAt(segments, t) ==
    {k \in 1..(Len(segments) - 1) :
        segments[k].end_seconds = t /\ segments[k + 1].start_seconds = t}

\* When no segment encloses T and several starts are at the same least
\* distance from T, below the tolerance, the first of them in the document
\* is returned.
NearestTieFirst ==
    (/\ Enclosing(al_segments, al_timestamp) = {}
     /\ Cardinality(Nearest(al_segments, al_timestamp)) >= 2
     /\ \A k \in Nearest(al_segments, al_timestamp) :
            StartDiff(al_segments, k, al_timestamp) < Tolerance)
    => al_result = Triple(al_segments[FirstOf(Nearest(al_segments, al_timestamp))])

DigitChars == <<"0", "1", "2", "3", "4", "5", "6", "7", "8", "9">>
IsDigit(c) == \E i \in 1..10 : DigitChars[i] = c
DigitValue(c) == (CHOOSE i \in 1..10 : DigitChars[i] = c) - 1

\* int() of a run of digits
RECURSIVE ToInt(_)
ToInt(ds) ==
    IF ds = << >> THEN 0
    ELSE 10 * ToInt(SubSeq(ds, 1, Len(ds) - 1)) + DigitValue(ds[Len(ds)])

\* str.strip(): leading and trailing blanks removed
RECURSIVE Strip(_)
Strip(str) ==
    IF str = << >> THEN str
    ELSE IF Head(str) = " " THEN Strip(Tail(str))
    ELSE IF str[Len(str)] = " " THEN Strip(SubSeq(str, 1, Len(str) - 1))
    ELSE str

\* The atoms of the four patterns: \d{lo,hi} (a captured group) and a
\* character class.
D(lo, hi) == [kind |-> "digits", lo |-> lo, hi |-> hi]
Lit(chars) == [kind |-> "lit", chars |-> chars]

AllDigits(str, from, n) ==
    /\ from + n - 1 <= Len(str)
    /\ \A i \in from..(from + n - 1) : IsDigit(str[i])

\* re.match of the pattern's atoms k.. at position pos of str: the captured
\* groups, or <<"nomatch">>.  \d{lo,hi} is greedy and backtracks: n digits
\* are tried from hi down to lo.
RECURSIVE Match(_, _, _, _, _)
RECURSIVE MatchDigits(_, _, _, _, _, _)
Match(str, pos, pat, k, groups) ==
    IF k > Len(pat) THEN groups
    ELSE IF pat[k].kind = "lit"
         THEN IF pos <= Len(str) /\ str[pos] \in pat[k].chars
              THEN Match(str, pos + 1, pat, k + 1, groups)
              ELSE <<"nomatch">>
         ELSE MatchDigits(str, pos, pat, k, groups, pat[k].hi)
MatchDigits(str, pos, pat, k, groups, n) ==
    IF n < pat[k].lo THEN <<"nomatch">>
    ELSE LET rest == IF AllDigits(str, pos, n)
                     THEN Match(str, pos + n, pat, k + 1,
                                Append(groups, ToInt(SubSeq(str, pos, pos + n - 1))))
                     ELSE <<"nomatch">>
         IN  IF rest # <<"nomatch">> THEN rest
             ELSE MatchDigits(str, pos, pat, k, groups, n - 1)

ReMatch(pat, str) == Match(str, 1, pat, 1, << >>)

\* r'(\d{1,2}):(\d{2}):(\d{2})[,.](\d{3})'
PatHMSms == <<D(1, 2), Lit({":"}), D(2, 2), Lit({":"}), D(2, 2), Lit({",", "."}), D(3, 3)>>
\* r'(\d{1,2}):(\d{2}):(\d{2})'
PatHMS == <<D(1, 2), Lit({":"}), D(2, 2), Lit({":"}), D(2, 2)>>
\* r'(\d{1,2}):(\d{2})[,.](\d{3})'
PatMSms == <<D(1, 2), Lit({":"}), D(2, 2), Lit({",", "."}), D(3, 3)>>
\* r'(\d{1,2}):(\d{2})'
PatMS == <<D(1, 2), Lit({":"}), D(2, 2)>>

\* float(ts) for the strings drawn here: a run of digits is a number of
\* seconds, anything else raises ValueError (and gives 0.0).
FloatOrZero(str) ==
    IF str # << >> /\ AllDigits(str, 1, Len(str)) THEN 1000 * ToInt(str) ELSE 0

\* parse_timestamp, in milliseconds
parse_timestamp(text) ==
    LET ts == Strip(text)
        a == ReMatch(PatHMSms, ts)
        b == ReMatch(PatHMS, ts)
        c == ReMatch(PatMSms, ts)
        d == ReMatch(PatMS, ts)
    IN  IF a # <<"nomatch">> THEN (a[1] * 3600 + a[2] * 60 + a[3]) * 1000 + a[4]
        ELSE IF b # <<"nomatch">> THEN (b[1] * 3600 + b[2] * 60 + b[3]) * 1000
        ELSE IF c # <<"nomatch">> THEN (c[1] * 60 + c[2]) * 1000 + c[3]
        ELSE IF d # <<"nomatch">> THEN (d[1] * 60 + d[2]) * 1000
        ELSE FloatOrZero(ts)

\* str(n) of a natural number
RECURSIVE ToDigits(_)
ToDigits(n) ==
    IF n < 10 THEN <<DigitChars[n + 1]>>
    ELSE Append(ToDigits(n \div 10), DigitChars[(n % 10) + 1])

\* f"{n:02d}"
Pad2(n) == IF n < 10 THEN <<"0">> \o ToDigits(n) ELSE ToDigits(n)

\* Mutant: the seconds field is rounded to the nearest second.
seconds_to_timestamp_round(ms) ==
    LET h == ms \div 3600000
        m == (ms % 3600000) \div 60000
        sec == ((ms % 60000) + 500) \div 1000
    IN  Pad2(h) \o <<":">> \o Pad2(m) \o <<":">> \o Pad2(sec)

\* seconds_to_timestamp, of a time in milliseconds: int() truncates
seconds_to_timestamp(ms) ==
    LET h == ms \div 3600000
        m == (ms % 3600000) \div 60000
        sec == (ms % 60000) \div 1000
    IN  Pad2(h) \o <<":">> \o Pad2(m) \o <<":">> \o Pad2(sec)

\* The strings drawn: each field's spellings.
HourTexts == {<<"0">>, <<"1">>, <<"0", "0">>, <<"0", "1">>, <<"1", "2">>, <<"9", "9">>}
MinuteTexts == {<<"0">>, <<"1">>, <<"0", "1">>, <<"1", "2">>, <<"5", "9">>, <<"7", "5">>}
TwoDigitTexts == {<<"0", "0">>, <<"0", "2">>, <<"5", "9">>, <<"6", "0">>, <<"7", "5">>}
MilliTexts == {<<"0", "0", "0">>, <<"5", "0", "0">>, <<"9", "9", "9">>}
Separators == {",", "."}
Notations == {"H:MM:SS.mmm", "H:MM:SS", "M:SS.mmm", "M:SS"}

\* A string as written: the notation and the text of each field (h is << >>
\* in the M:SS notations, ms and sep are << >> where there are none).
Written ==
    [notation : {"H:MM:SS.mmm"}, h : HourTexts, m : TwoDigitTexts, s : TwoDigitTexts,
     sep : Separators, ms : MilliTexts]
    \cup [notation : {"H:MM:SS"}, h : HourTexts, m : TwoDigitTexts, s : TwoDigitTexts,
          sep : {""}, ms : {<< >>}]
    \cup [notation : {"M:SS.mmm"}, h : {<< >>}, m : MinuteTexts, s : TwoDigitTexts,
          sep : Separators, ms : MilliTexts]
    \cup [notation : {"M:SS"}, h : {<< >>}, m : MinuteTexts, s : TwoDigitTexts,
          sep : {""}, ms : {<< >>}]
    \cup [notation : {"seconds"}, h : {<< >>}, m : {<< >>}, s : TwoDigitTexts,
          sep : {""}, ms : {<< >>}]
    \cup [notation : {"other"}, h : {<< >>}, m : {<< >>}, s : {<<"-", "-">>},
          sep : {""}, ms : {<< >>}]

TextOfWritten(w) ==
    (IF w.h = << >> THEN << >> ELSE w.h \o <<":">>)
    \o (IF w.m = << >> THEN << >> ELSE w.m \o <<":">>)
    \o w.s
    \o (IF w.ms = << >> THEN << >> ELSE <<w.sep>> \o w.ms)

InitTs ==
    /\ ts_written \in Written
    /\ \E pad \in {<< >>, <<" ">>} : ts_text = pad \o TextOfWritten(ts_written) \o pad
    /\ ts_seconds = None
    /\ ts_display = None
    /\ ts_pc = "text"
    /\ FramesIdle /\ AlignIdle /\ ParseIdle /\ MetricsIdle /\ PipeIdle /\ CollectIdle

\* A call parse_timestamp(ts_text), as at lines 152, 208, 281.
ParseTimestamp ==
    /\ ts_pc = "text"
    /\ ts_seconds' = parse_timestamp(ts_text)
    /\ ts_pc' = "parsed"
    /\ UNCHANGED <<ts_text, ts_written, ts_display>>
    /\ UNCHANGED <<frameVars, alignVars, parseVars, metricVars, pipeVars, collectVars>>

\* A call seconds_to_timestamp(ts_seconds), as at line 652.
SecondsToTimestamp ==
    /\ ts_pc = "parsed"
    /\ ts_display' = seconds_to_timestamp(ts_seconds)
    /\ ts_pc' = "shown"
    /\ UNCHANGED <<ts_text, ts_written, ts_seconds>>
    /\ UNCHANGED <<frameVars, alignVars, parseVars, metricVars, pipeVars, collectVars>>

NextTs == ParseTimestamp \/ SecondsToTimestamp

SpecTs == InitTs /\ [][NextTs]_vars

\* ---- properties of the timestamp normalizer

\* A field's text zero-padded to two characters.
PadText(f) == IF Len(f) < 2 THEN <<"0">> \o f ELSE f

\* The zero-padded HH:MM:SS portion of a string as written, hours 00 in the
\* M:SS notations.
HHMMSSPortion(w) ==
    (IF w.h = << >> THEN <<"0", "0">> ELSE PadText(w.h))
    \o <<":">> \o PadText(w.m) \o <<":">> \o w.s

\* C8 as stated: for every string in one of the four notations,
\* seconds_to_timestamp(parse_timestamp(s)) is the zero-padded HH:MM:SS
\* portion of s, milliseconds truncated.
C8_RoundTripAnyFields ==
    (ts_pc = "shown" /\ ts_written.notation \in Notations) =>
        ts_display = HHMMSSPortion(ts_written)

FieldsInRange(w) == ToInt(w.m) < 60 /\ ToInt(w.s) < 60

\* C8 amended: for every string in one of the four notations whose minute
\* and second fields are below 60, seconds_to_timestamp(parse_timestamp(s))
\* is the zero-padded HH:MM:SS portion of s (hours 00 in the M:SS notations,
\* milliseconds truncated, never rounded up).
C8_RoundTripFieldsInRange ==
    (ts_pc = "shown" /\ ts_written.notation \in Notations /\ FieldsInRange(ts_written)) =>
        ts_display = HHMMSSPortion(ts_written)

\* C8's case: "1:02,999" read as 62.999 s and shown as "00:01:02".
C8_Witness ==
    /\ ts_pc = "shown"
    /\ ts_written.notation = "M:SS.mmm"
    /\ Strip(ts_text) = <<"1", ":", "0", "2", ",", "9", "9", "9">>
    /\ ts_seconds = 62999
    /\ ts_display = <<"0", "0", ":", "0", "1", ":", "0", "2">>

(***************************************************************************)
(* Transcript parsers                                                      *)
(* A line is a list of tokens: a word of letters, a blank, a colon, a run  *)
(* of the characters [0-9:,.] (a timestamp or a number, kept as its        *)
(* characters), an arrow "-->", a tag <...>, a voice tag <v Name>, an      *)
(* opening or closing bracket, a dash.  The regular expressions of the     *)
(* parsers are matched on these tokens.  Times are in milliseconds.        *)
(***************************************************************************)

W(str) == [k |-> "w", s |-> str]
\* None, where a speaker label (a list of tokens) is expected
NoSpeaker == <<[k |-> "None", s |-> "None"]>>
\* None, where the text of a timestamp (a list of characters) is expected
NoStart == << >>
Sp == [k |-> "sp", s |-> " "]
Colon == [k |-> "colon", s |-> ":"]
Ts(chars) == [k |-> "ts", s |-> chars]
Arrow == [k |-> "arrow", s |-> "-->"]
Tag(str) == [k |-> "tag", s |-> str]
Voice(name) == [k |-> "voice", s |-> name]
Open(str) == [k |-> "open", s |-> str]
Close(str) == [k |-> "close", s |-> str]
Dash == [k |-> "dash", s |-> "-"]

\* A token matched by <[^>]+>
IsTag(t) == t.k \in {"tag", "voice"}
\* A token made of characters of the class [\d:,.]
IsClass(t) == t.k \in {"ts", "colon"}
\* The characters of a class token
ClassChars(t) == IF t.k = "colon" THEN <<":">> ELSE t.s

\* str.strip() of a line
RECURSIVE StripLine(_)
StripLine(line) ==
    IF line = << >> THEN line
    ELSE IF Head(line) = Sp THEN StripLine(Tail(line))
    ELSE IF line[Len(line)] = Sp THEN StripLine(SubSeq(line, 1, Len(line) - 1))
    ELSE line

RECURSIVE LStripLine(_)
LStripLine(line) ==
    IF line # << >> /\ Head(line) = Sp THEN LStripLine(Tail(line)) ELSE line

RECURSIVE RStripLine(_)
RStripLine(line) ==
    IF line # << >> /\ line[Len(line)] = Sp
    THEN RStripLine(SubSeq(line, 1, Len(line) - 1)) ELSE line

IsBlank(line) == StripLine(line) = << >>

\* re.sub(r'<[^>]+>', '', line)
RemoveTags(line) == SelectSeq(line, LAMBDA t : ~IsTag(t))

\* The first index >= pos of line that holds no blank (Len + 1 if none).
RECURSIVE SkipSp(_, _)
SkipSp(line, pos) ==
    IF pos <= Len(line) /\ line[pos] = Sp THEN SkipSp(line, pos + 1) ELSE pos

\* The last index of the run of class tokens that starts at pos (pos - 1 if
\* line[pos] is no class token): the greedy match of [\d:,.]+ .
RECURSIVE ClassRunEnd(_, _)
ClassRunEnd(line, pos) ==
    IF pos <= Len(line) /\ IsClass(line[pos]) THEN ClassRunEnd(line, pos + 1)
    ELSE pos - 1

\* The characters of the tokens from..to of line.
RECURSIVE ClassText(_, _, _)
ClassText(line, from, to) ==
    IF from > to THEN << >>
    ELSE ClassChars(line[from]) \o ClassText(line, from + 1, to)

\* re.match(r'([\d:,.]+)\s*-->\s*([\d:,.]+)', line): <<group 1, group 2>>, or
\* <<"nomatch">>.
ArrowMatch(line) ==
    LET e1 == ClassRunEnd(line, 1)
        a == SkipSp(line, e1 + 1)
        b == SkipSp(line, a + 1)
        e2 == ClassRunEnd(line, b)
    IN  IF e1 >= 1 /\ a <= Len(line) /\ line[a] = Arrow /\ e2 >= b
        THEN <<ClassText(line, 1, e1), ClassText(line, b, e2)>>
        ELSE <<"nomatch">>

\* re.match(r'\d{2}:\d{2}', line)
HeaderEnds(line) ==
    LET text == ClassText(line, 1, ClassRunEnd(line, 1))
    IN  /\ Len(text) >= 5
        /\ IsDigit(text[1]) /\ IsDigit(text[2]) /\ text[3] = ":"
        /\ IsDigit(text[4]) /\ IsDigit(text[5])

\* re.match(r'^\d+$', line)
IsCueNumber(line) ==
    /\ line # << >>
    /\ \A j \in 1..Len(line) :
           line[j].k = "ts" /\ AllDigits(line[j].s, 1, Len(line[j].s))

\* line.startswith('NOTE')
StartsWithNote(line) == line # << >> /\ line[1] = W("NOTE")

\* len(text.split()): the runs of tokens that are no blanks
WordCount(line) ==
    Cardinality({j \in 1..Len(line) :
                    line[j] # Sp /\ (j = 1 \/ line[j - 1] = Sp)})

\* any(c.isdigit() for c in text)
HasDigit(line) == \E j \in 1..Len(line) : line[j].k = "ts"

\* The index of the first ':' of the line: a colon token, or a class token
\* with a ':' among its characters (0 if there is none).
HoldsColon(t) ==
    t.k = "colon" \/ (t.k = "ts" /\ \E j \in 1..Len(t.s) : t.s[j] = ":")

FirstColon(line) ==
    IF \E j \in 1..Len(line) : HoldsColon(line[j])
    THEN CHOOSE j \in 1..Len(line) :
             HoldsColon(line[j]) /\ \A h \in 1..(j - 1) : ~HoldsColon(line[h])
    ELSE 0

\* re.match(r'^([^:]+):\s*(.+)$', line) followed by the name heuristic (at
\* most 4 words, no digit): <<potential_speaker, group(2).strip()>>, or
\* <<"nomatch">> when the pattern or the heuristic fails.  A ':' inside a
\* class token leaves digits in group 1, which the heuristic refuses.
SpeakerColonMatch(line) ==
    LET c == FirstColon(line)
        potential_speaker == StripLine(SubSeq(line, 1, c - 1))
    IN  IF /\ c >= 2 /\ c < Len(line) /\ line[c] = Colon
           /\ WordCount(potential_speaker) <= 4
           /\ ~HasDigit(potential_speaker)
        THEN <<potential_speaker, StripLine(SubSeq(line, c + 1, Len(line)))>>
        ELSE <<"nomatch">>

\* extract_speaker_from_vtt_line(line): <<speaker, cleaned_text>>
extract_speaker_from_vtt_line(line) ==
    IF line # << >> /\ line[1].k = "voice"
    THEN <<<<W(line[1].s)>>, RemoveTags(StripLine(Tail(line)))>>
    ELSE LET m == SpeakerColonMatch(line)
         IN  IF m # <<"nomatch">> THEN m
             ELSE <<NoSpeaker, RemoveTags(line)>>

\* A speaker label that is truthy: not None, not ''
Truthy(label) == label # NoSpeaker /\ label # << >>

\* ' '.join(parts)
RECURSIVE JoinWithSpace(_)
JoinWithSpace(parts) ==
    IF parts = << >> THEN << >>
    ELSE IF Len(parts) = 1 THEN parts[1]
    ELSE parts[1] \o <<Sp>> \o JoinWithSpace(Tail(parts))

\* content.strip().split('\n'): blank lines at both ends go, the first line
\* loses its leading and the last its trailing blanks; '' gives [''].
RECURSIVE DropLeadingBlank(_)
DropLeadingBlank(lines) ==
    IF lines # << >> /\ IsBlank(Head(lines)) THEN DropLeadingBlank(Tail(lines))
    ELSE lines

RECURSIVE DropTrailingBlank(_)
DropTrailingBlank(lines) ==
    IF lines # << >> /\ IsBlank(lines[Len(lines)])
    THEN DropTrailingBlank(SubSeq(lines, 1, Len(lines) - 1))
    ELSE lines

StripSplit(lines) ==
    LET kept == DropTrailingBlank(DropLeadingBlank(lines))
    IN  IF kept = << >> THEN << << >> >>
        ELSE [j \in 1..Len(kept) |->
                 IF j = 1 /\ j = Len(kept) THEN StripLine(kept[j])
                 ELSE IF j = 1 THEN LStripLine(kept[j])
                 ELSE IF j = Len(kept) THEN RStripLine(kept[j])
                 ELSE kept[j]]

\* Mutant: the next identifier is numbered by the segments emitted so far.
CountedBySegments(counter, label) ==
    IF label \in DOMAIN counter THEN counter
    ELSE [x \in DOMAIN counter \cup {label} |->
             IF x = label THEN SpeakerId(Len(p_segments) + 1)
             ELSE counter[x]]

\* Mutant: every new label is given the first identifier.
CountedShared(counter, label) ==
    IF label \in DOMAIN counter THEN counter
    ELSE [x \in DOMAIN counter \cup {label} |->
             IF x = label THEN SpeakerId(1) ELSE counter[x]]

\* The speaker id of a label: speaker_counter after "if label not in
\* speaker_counter: speaker_counter[label] = f'speaker_{len + 1}'".
Counted(counter, label) ==
    IF label \in DOMAIN counter THEN counter
    ELSE [x \in DOMAIN counter \cup {label} |->
             IF x = label THEN SpeakerId(Cardinality(DOMAIN counter) + 1)
             ELSE counter[x]]

\* speaker_counter = {}
EmptyCounter == [x \in {} |-> None]

\* Mutant: the new segment is put in front of the list.
EmitFirst(segments, segment) == <<segment>> \o segments

\* segments.append(TranscriptSegment(...))
Emit(segments, segment) == Append(segments, segment)

\* ---- parse_vtt

\* The header loop: the index of the first line from i on that starts like
\* a timestamp (Len + 1 if none).
RECURSIVE SkipHeader(_, _)
SkipHeader(lines, i) ==
    IF i <= Len(lines) /\ ~HeaderEnds(lines[i]) THEN SkipHeader(lines, i + 1)
    ELSE i

\* The inner loop of parse_vtt from line i on:
\* <<i, text_lines, segment_speaker>> when it ends.
RECURSIVE VttCollect(_, _, _, _)
VttCollect(lines, i, text_lines, segment_speaker) ==
    IF i > Len(lines) THEN <<i, text_lines, segment_speaker>>
    ELSE LET text_line == StripLine(lines[i])
         IN  IF text_line = << >> \/ ArrowMatch(text_line) # <<"nomatch">>
             THEN <<i, text_lines, segment_speaker>>
             ELSE IF IsCueNumber(text_line) \/ StartsWithNote(text_line)
             THEN VttCollect(lines, i + 1, text_lines, segment_speaker)
             ELSE LET r == extract_speaker_from_vtt_line(text_line)
                      speaker == r[1]
                      cleaned_text == r[2]
                  IN  VttCollect(lines, i + 1,
                          IF cleaned_text # << >> THEN Append(text_lines, cleaned_text)
                          ELSE text_lines,
                          IF Truthy(speaker) /\ ~Truthy(segment_speaker) THEN speaker
                          ELSE segment_speaker)

\* One pass of parse_vtt's outer loop at line i (1-based):
\* <<i, speaker_counter, segments>> after it.
VttIteration(lines, i, counter, segments) ==
    LET line == StripLine(lines[i])
        m == ArrowMatch(line)
    IN  IF m = <<"nomatch">> THEN <<i + 1, counter, segments>>
        ELSE LET start == parse_timestamp(m[1])
                 end == parse_timestamp(m[2])
                 c == VttCollect(lines, i + 1, << >>, NoSpeaker)
                 text_lines == c[2]
                 segment_speaker == c[3]
                 counted == IF Truthy(segment_speaker)
                            THEN Counted(counter, segment_speaker) ELSE counter
                 speaker_id == IF Truthy(segment_speaker)
                               THEN counted[segment_speaker] ELSE None
             IN  IF text_lines # << >>
                 THEN <<c[1], counted,
                        Emit(segments,
                             TranscriptSegment(start, end, JoinWithSpace(text_lines),
                                               speaker_id, segment_speaker))>>
                 ELSE <<c[1], counter, segments>>

\* ---- parse_srt

\* re.split(r'\n\s*\n', content.strip()): the runs of lines that are not
\* blank, each then block.strip().split('\n').
RECURSIVE SplitBlocks(_, _, _)
SplitBlocks(lines, i, current) ==
    IF i > Len(lines)
    THEN IF current = << >> THEN << >> ELSE <<StripSplit(current)>>
    ELSE IF IsBlank(lines[i])
    THEN (IF current = << >> THEN << >> ELSE <<StripSplit(current)>>)
         \o SplitBlocks(lines, i + 1, << >>)
    ELSE SplitBlocks(lines, i + 1, Append(current, lines[i]))

SrtBlocks(content) ==
    LET blocks == SplitBlocks(StripSplit(content), 1, << >>)
    IN  IF blocks = << >> THEN << << << >> >> >> ELSE blocks

\* The index of the first line of the block that re.match finds to be a
\* timestamp line (0 if none).
FirstArrowLine(lines) ==
    IF \E j \in 1..Len(lines) : ArrowMatch(lines[j]) # <<"nomatch">>
    THEN CHOOSE j \in 1..Len(lines) :
             /\ ArrowMatch(lines[j]) # <<"nomatch">>
             /\ \A h \in 1..(j - 1) : ArrowMatch(lines[h]) = <<"nomatch">>
    ELSE 0

\* The loop over text_lines from index k on:
\* <<segment_speaker, cleaned_lines>> when it ends.
RECURSIVE SrtClean(_, _, _, _)
SrtClean(text_lines, k, segment_speaker, cleaned_lines) ==
    IF k > Len(text_lines) THEN <<segment_speaker, cleaned_lines>>
    ELSE LET text_line == RemoveTags(text_lines[k])
             m == SpeakerColonMatch(text_line)
         IN  IF m # <<"nomatch">>
             THEN SrtClean(text_lines, k + 1,
                           IF ~Truthy(segment_speaker) THEN m[1] ELSE segment_speaker,
                           Append(cleaned_lines, m[2]))
             ELSE SrtClean(text_lines, k + 1, segment_speaker,
                           Append(cleaned_lines, text_line))

\* One pass of parse_srt's loop over the blocks, for the block's lines:
\* <<speaker_counter, segments>> after it.
SrtBlock(lines, counter, segments) ==
    LET a == FirstArrowLine(lines)
    IN  IF Len(lines) < 2 \/ a = 0 THEN <<counter, segments>>
        ELSE LET m == ArrowMatch(lines[a])
                 start == parse_timestamp(m[1])
                 end == parse_timestamp(m[2])
                 c == SrtClean(SubSeq(lines, a + 1, Len(lines)), 1, NoSpeaker, << >>)
                 segment_speaker == c[1]
                 text == StripLine(JoinWithSpace(c[2]))
                 counted == IF Truthy(segment_speaker)
                            THEN Counted(counter, segment_speaker) ELSE counter
                 speaker_id == IF Truthy(segment_speaker)
                               THEN counted[segment_speaker] ELSE None
             IN  <<counted,
                   Emit(segments,
                        TranscriptSegment(start, end, text, speaker_id, segment_speaker))>>

\* ---- parse_plain_text
\* The text after a timestamp is taken to hold no further timestamp, and a
\* line holds no arrow.

\* "end = start + 10", in milliseconds
LastSegmentDuration == 10000

IsBracket(t) == t.k \in {"open", "close"}

FirstBracket(line) ==
    IF \E j \in 1..Len(line) : IsBracket(line[j])
    THEN CHOOSE j \in 1..Len(line) :
             IsBracket(line[j]) /\ \A h \in 1..(j - 1) : ~IsBracket(line[h])
    ELSE 0

\* The first colon token at or after pos (0 if none).
ColonFrom(line, pos) ==
    IF \E j \in pos..Len(line) : line[j] = Colon
    THEN CHOOSE j \in pos..Len(line) :
             line[j] = Colon /\ \A h \in pos..(j - 1) : line[h] # Colon
    ELSE 0

\* r'^([A-Za-z][^[\]()]*?)\s*[\[\(]([\d:,.]+)[\]\)]:\s*(.+)$':
\* <<ts, text, speaker>> or <<"nomatch">>
PlainSpeakerFirst(line) ==
    LET b == FirstBracket(line)
        e == ClassRunEnd(line, b + 1)
    IN  IF /\ line[1].k = "w"
           /\ b >= 2 /\ line[b].k = "open"
           /\ e >= b + 1
           /\ e + 2 < Len(line)
           /\ line[e + 1].k = "close"
           /\ line[e + 2] = Colon
        THEN <<parse_timestamp(ClassText(line, b + 1, e)),
               StripLine(SubSeq(line, e + 3, Len(line))),
               StripLine(SubSeq(line, 1, b - 1))>>
        ELSE <<"nomatch">>

\* r'^[\[\(]([\d:,.]+)[\]\)]\s*([A-Za-z][^:]*?):\s*(.+)$'
PlainTsSpeaker(line) ==
    LET e == ClassRunEnd(line, 2)
        q == SkipSp(line, e + 2)
        c == ColonFrom(line, q)
    IN  IF /\ line[1].k = "open"
           /\ e >= 2
           /\ e + 1 <= Len(line) /\ line[e + 1].k = "close"
           /\ q <= Len(line) /\ line[q].k = "w"
           /\ c # 0 /\ c < Len(line)
        THEN <<parse_timestamp(ClassText(line, 2, e)),
               StripLine(SubSeq(line, c + 1, Len(line))),
               StripLine(SubSeq(line, q, c - 1))>>
        ELSE <<"nomatch">>

\* "Check if text starts with 'Speaker: '": r'^([A-Za-z][^:]*?):\s*(.+)$' on
\* the text, a name of at most 4 words: <<text, speaker>>
SpeakerInText(text) ==
    LET c == ColonFrom(text, 1)
        potential_speaker == StripLine(SubSeq(text, 1, c - 1))
    IN  IF /\ text # << >> /\ text[1].k = "w"
           /\ c # 0 /\ c < Len(text)
           /\ WordCount(potential_speaker) <= 4
        THEN <<StripLine(SubSeq(text, c + 1, Len(text))), potential_speaker>>
        ELSE <<text, NoSpeaker>>

\* r'^[\[\(]([\d:,.]+)[\]\)]\s*(.+)$'
PlainTsOnly(line) ==
    LET e == ClassRunEnd(line, 2)
        q == SkipSp(line, e + 2)
    IN  IF /\ line[1].k = "open"
           /\ e >= 2
           /\ e + 1 <= Len(line) /\ line[e + 1].k = "close"
           /\ q <= Len(line)
        THEN LET st == SpeakerInText(StripLine(SubSeq(line, q, Len(line))))
             IN  <<parse_timestamp(ClassText(line, 2, e)), st[1], st[2]>>
        ELSE <<"nomatch">>

\* The largest j >= 2 with chars[j] = ':' and something left after it in the
\* line (0 if none): where [\d:,.]+ , giving characters back, lets [-:] match.
LastUsableColon(chars, restNonEmpty) ==
    LET ok(j) == chars[j] = ":" /\ (j < Len(chars) \/ restNonEmpty)
    IN  IF \E j \in 2..Len(chars) : ok(j)
        THEN CHOOSE j \in 2..Len(chars) : ok(j) /\ \A h \in (j + 1)..Len(chars) : ~ok(h)
        ELSE 0

\* r'^([\d:,.]+)\s*[-:]\s*(.+)$'
PlainTsDash(line) ==
    LET e == ClassRunEnd(line, 1)
        q == SkipSp(line, e + 1)
        chars == ClassText(line, 1, e)
        j == LastUsableColon(chars, e < Len(line))
    IN  IF e >= 1 /\ q < Len(line) /\ line[q].k \in {"dash", "colon"}
        THEN LET st == SpeakerInText(StripLine(SubSeq(line, q + 1, Len(line))))
             IN  <<parse_timestamp(chars), st[1], st[2]>>
        ELSE IF e >= 1 /\ j # 0
        THEN LET rest == IF j < Len(chars) THEN <<Ts(SubSeq(chars, j + 1, Len(chars)))>>
                         ELSE << >>
                 st == SpeakerInText(StripLine(rest \o SubSeq(line, e + 1, Len(line))))
             IN  <<parse_timestamp(SubSeq(chars, 1, j - 1)), st[1], st[2]>>
        ELSE <<"nomatch">>

\* One pass of the first loop of parse_plain_text: parsed_items after the
\* line (already stripped, not empty) has been tried against the patterns.
PlainLine(line, parsed_items) ==
    LET a == PlainSpeakerFirst(line)
        b == PlainTsSpeaker(line)
        c == PlainTsOnly(line)
        d == PlainTsDash(line)
    IN  IF a # <<"nomatch">> THEN Append(parsed_items, a)
        ELSE IF b # <<"nomatch">> THEN Append(parsed_items, b)
        ELSE IF c # <<"nomatch">> THEN Append(parsed_items, c)
        ELSE IF d # <<"nomatch">> THEN Append(parsed_items, d)
        ELSE parsed_items

\* One pass of the second loop of parse_plain_text, for item i (1-based):
\* <<speaker_counter, segments>> after it.
PlainItem(parsed_items, i, counter, segments) ==
    LET start == parsed_items[i][1]
        text == parsed_items[i][2]
        speaker == parsed_items[i][3]
        end == IF i + 1 <= Len(parsed_items) THEN parsed_items[i + 1][1]
               ELSE start + LastSegmentDuration
        counted == IF Truthy(speaker) THEN Counted(counter, speaker) ELSE counter
        speaker_id == IF Truthy(speaker) THEN counted[speaker] ELSE None
    IN  <<counted,
          Emit(segments, TranscriptSegment(start, end, text, speaker_id, speaker))>>

\* ---- the documents drawn

\* Most pieces of a drawn document.
MaxPieces == 3

\* "00:00:SS.000", "00:00:SS,000", "00:00:SS", "0:SS" and "0:00:SS.000"
VttTime(sec) == <<"0", "0", ":", "0", "0", ":">> \o Pad2(sec) \o <<".", "0", "0", "0">>
SrtTime(sec) == <<"0", "0", ":", "0", "0", ":">> \o Pad2(sec) \o <<",", "0", "0", "0">>
ClockTime(sec) == <<"0", "0", ":", "0", "0", ":">> \o Pad2(sec)
ShortTime(sec) == <<"0", ":">> \o Pad2(sec)
OneDigitHourTime(sec) == <<"0", ":", "0", "0", ":">> \o Pad2(sec) \o <<".", "0", "0", "0">>

ArrowLine(a, b) == <<Ts(a), Sp, Arrow, Sp, Ts(b)>>

\* A piece of a document: its lines, and as what it was written: the start
\* timestamp and the speaker label it shows (NoStart, NoSpeaker where it shows none).
Piece(lines, start, label) == [lines |-> lines, start |-> start, label |-> label]

Alice == <<W("Alice")>>
Bob == <<W("Bob")>>
Carol == <<W("Carol")>>

VttPieces == {
    Piece(<< <<W("WEBVTT")>>, << >> >>, NoStart, NoSpeaker),
    Piece(<< ArrowLine(VttTime(0), VttTime(3)),
             <<Voice("Alice"), W("Hello"), Sp, W("there")>>, << >> >>,
          VttTime(0), Alice),
    Piece(<< ArrowLine(VttTime(3), VttTime(7)),
             <<W("Bob"), Colon, Sp, W("Hi")>>, << >> >>,
          VttTime(3), Bob),
    Piece(<< <<Ts(<<"3">>)>>, ArrowLine(VttTime(7), VttTime(9)),
             <<Voice("Alice"), W("Bye"), Tag("/v")>> >>,
          VttTime(7), Alice),
    Piece(<< ArrowLine(VttTime(1), VttTime(2)), <<Voice("Carol")>>, << >> >>,
          VttTime(1), Carol),
    Piece(<< ArrowLine(VttTime(5), VttTime(4)),
             <<W("Thanks"), Sp, Tag("b"), W("all"), Tag("/b")>>, << >> >>,
          VttTime(5), NoSpeaker),
    Piece(<< ArrowLine(OneDigitHourTime(9), OneDigitHourTime(10)),
             <<Voice("Carol"), W("Sure")>>, << >> >>,
          OneDigitHourTime(9), Carol),
    Piece(<< ArrowLine(VttTime(2), VttTime(3)),
             <<Voice("Alice"), Tag("b"), Sp, Tag("/b")>>, << >> >>,
          VttTime(2), Alice),
    Piece(<< ArrowLine(VttTime(4), VttTime(6)), <<W("NOTE"), Sp, W("x")>>,
             <<W("Speaker"), Sp, Ts(<<"2">>), Colon, Sp, W("yo")>>, << >> >>,
          VttTime(4), NoSpeaker) }

SrtPieces == {
    Piece(<< <<Ts(<<"1">>)>>, ArrowLine(SrtTime(0), SrtTime(3)),
             <<W("Alice"), Colon, Sp, W("Hello"), Sp, W("there")>>, << >> >>,
          SrtTime(0), Alice),
    Piece(<< <<Ts(<<"2">>)>>, ArrowLine(SrtTime(3), SrtTime(7)),
             <<Tag("b"), W("Bob"), Tag("/b"), Colon, Sp, W("Hi")>>, <<Sp>> >>,
          SrtTime(3), Bob),
    Piece(<< <<Ts(<<"3">>)>>, ArrowLine(SrtTime(7), SrtTime(9)),
             <<W("Alice"), Colon, Sp, W("Bye")>>,
             <<W("Carol"), Colon, Sp, W("Wait")>>, << >> >>,
          SrtTime(7), Alice),
    Piece(<< <<Ts(<<"4">>)>>, ArrowLine(SrtTime(1), SrtTime(2)),
             <<Tag("i"), Tag("/i")>>, << >> >>,
          SrtTime(1), NoSpeaker),
    Piece(<< ArrowLine(SrtTime(5), SrtTime(4)), <<W("Thanks")>>, << >> >>,
          SrtTime(5), NoSpeaker),
    Piece(<< <<W("stray")>> >>, NoStart, NoSpeaker),
    Piece(<< <<Ts(<<"7">>)>>, ArrowLine(SrtTime(9), SrtTime(10)), << >> >>,
          SrtTime(9), NoSpeaker),
    Piece(<< <<Ts(<<"8">>)>>, <<Sp>> \o ArrowLine(SrtTime(2), SrtTime(3)),
             <<W("Carol"), Colon, Sp, W("Hm")>>, << >> >>,
          SrtTime(2), Carol) }

PlainPieces == {
    Piece(<< <<W("Alice"), Sp, Open("["), Ts(ClockTime(0)), Close("]"), Colon, Sp,
               W("Hello"), Sp, W("there")>> >>,
          ClockTime(0), Alice),
    Piece(<< <<Open("["), Ts(ClockTime(3)), Close("]"), Sp, W("Bob"), Colon, Sp,
               W("Hi"), Sp, W("Alice")>> >>,
          ClockTime(3), Bob),
    Piece(<< <<Open("["), Ts(ClockTime(7)), Close("]"), Sp, W("Thanks"), Sp,
               W("everyone")>> >>,
          ClockTime(7), NoSpeaker),
    Piece(<< <<Ts(ClockTime(9)), Sp, Dash, Sp, W("Alice"), Colon, Sp, W("Bye")>> >>,
          ClockTime(9), Alice),
    Piece(<< <<Ts(ClockTime(5)), Colon, Sp, W("Bob"), Colon, Sp, W("Sure")>> >>,
          ClockTime(5), Bob),
    Piece(<< <<W("Just"), Sp, W("notes")>> >>, NoStart, NoSpeaker),
    Piece(<< << >> >>, NoStart, NoSpeaker),
    Piece(<< <<Sp, Open("("), Ts(ShortTime(2)), Close(")"), Sp, W("Carol"), Colon, Sp,
               W("One"), Sp, W("two")>> >>,
          ShortTime(2), Carol) }

PiecesOf(format) ==
    CASE format = "vtt" -> VttPieces
      [] format = "srt" -> SrtPieces
      [] OTHER -> PlainPieces

\* The content of a document: the lines of its pieces, in order.
RECURSIVE Content(_)
Content(doc) ==
    IF doc = << >> THEN << >> ELSE Head(doc).lines \o Content(Tail(doc))

InitParse ==
    /\ p_format \in {"vtt", "srt", "plain"}
    /\ p_doc \in SeqsUpTo(PiecesOf(p_format), MaxPieces)
    /\ p_lines = << >>
    /\ p_i = 0
    /\ p_items = << >>
    /\ p_speaker_counter = EmptyCounter
    /\ p_segments = << >>
    /\ p_pc = "call"
    /\ FramesIdle /\ AlignIdle /\ TsIdle /\ MetricsIdle /\ PipeIdle /\ CollectIdle

\* The parser is entered: the content is split (lines 137, 196, 254), and
\* parse_vtt skips the header (lines 139-142).
ParseBegin ==
    /\ p_pc = "call"
    /\ p_lines' = IF p_format = "srt" THEN SrtBlocks(Content(p_doc))
                  ELSE StripSplit(Content(p_doc))
    /\ p_i' = IF p_format = "vtt" THEN SkipHeader(StripSplit(Content(p_doc)), 1) ELSE 1
    /\ p_pc' = "loop"
    /\ UNCHANGED <<p_format, p_doc, p_items, p_speaker_counter, p_segments>>
    /\ UNCHANGED <<frameVars, alignVars, tsVars, metricVars, pipeVars, collectVars>>

\* parse_vtt lines 146-188: one pass of the outer loop.
VttIter ==
    /\ p_pc = "loop" /\ p_format = "vtt" /\ p_i <= Len(p_lines)
    /\ LET r == VttIteration(p_lines, p_i, p_speaker_counter, p_segments)
       IN  /\ p_i' = r[1]
           /\ p_speaker_counter' = r[2]
           /\ p_segments' = r[3]
    /\ UNCHANGED <<p_format, p_doc, p_lines, p_items, p_pc>>
    /\ UNCHANGED <<frameVars, alignVars, tsVars, metricVars, pipeVars, collectVars>>

\* parse_srt lines 199-246: one pass of the loop over the blocks.
SrtIter ==
    /\ p_pc = "loop" /\ p_format = "srt" /\ p_i <= Len(p_lines)
    /\ LET r == SrtBlock(p_lines[p_i], p_speaker_counter, p_segments)
       IN  /\ p_speaker_counter' = r[1]
           /\ p_segments' = r[2]
    /\ p_i' = p_i + 1
    /\ UNCHANGED <<p_format, p_doc, p_lines, p_items, p_pc>>
    /\ UNCHANGED <<frameVars, alignVars, tsVars, metricVars, pipeVars, collectVars>>

\* parse_plain_text lines 271-303: one pass of the loop over the lines; after
\* the last line the second loop starts.
PlainScan ==
    /\ p_pc = "loop" /\ p_format = "plain" /\ p_i <= Len(p_lines)
    /\ LET line == StripLine(p_lines[p_i])
       IN  p_items' = IF line = << >> THEN p_items ELSE PlainLine(line, p_items)
    /\ IF p_i = Len(p_lines)
       THEN p_i' = 1 /\ p_pc' = "convert"
       ELSE p_i' = p_i + 1 /\ p_pc' = p_pc
    /\ UNCHANGED <<p_format, p_doc, p_lines, p_speaker_counter, p_segments>>
    /\ UNCHANGED <<frameVars, alignVars, tsVars, metricVars, pipeVars, collectVars>>

\* parse_plain_text lines 306-325: one pass of the loop over parsed_items.
PlainConvert ==
    /\ p_pc = "convert" /\ p_i <= Len(p_items)
    /\ LET r == PlainItem(p_items, p_i, p_speaker_counter, p_segments)
       IN  /\ p_speaker_counter' = r[1]
           /\ p_segments' = r[2]
    /\ p_i' = p_i + 1
    /\ UNCHANGED <<p_format, p_doc, p_lines, p_items, p_pc>>
    /\ UNCHANGED <<frameVars, alignVars, tsVars, metricVars, pipeVars, collectVars>>

\* return segments (lines 190, 248, 327)
ParseReturn ==
    /\ \/ p_pc = "loop" /\ p_i > Len(p_lines)
       \/ p_pc = "convert" /\ p_i > Len(p_items)
    /\ p_pc' = "returned"
    /\ UNCHANGED <<p_format, p_doc, p_lines, p_i, p_items, p_speaker_counter, p_segments>>
    /\ UNCHANGED <<frameVars, alignVars, tsVars, metricVars, pipeVars, collectVars>>

NextParse == ParseBegin \/ VttIter \/ SrtIter \/ PlainScan \/ PlainConvert \/ ParseReturn

SpecParse == InitParse /\ [][NextParse]_vars

\* ---- properties of the parsers

SegmentStarts(segments) == [k \in 1..Len(segments) |-> segments[k].start_seconds]

\* The start times a document shows, top to bottom, as parse_timestamp
\* reads them.
RECURSIVE DocumentStarts(_)
DocumentStarts(doc) ==
    IF doc = << >> THEN << >>
    ELSE (IF Head(doc).start = NoStart THEN << >>
          ELSE <<parse_timestamp(Head(doc).start)>>) \o DocumentStarts(Tail(doc))

\* The speaker labels a document shows, top to bottom.
RECURSIVE DocumentLabels(_)
DocumentLabels(doc) ==
    IF doc = << >> THEN << >>
    ELSE (IF Head(doc).label = NoSpeaker THEN << >> ELSE <<Head(doc).label>>)
         \o DocumentLabels(Tail(doc))

\* The segments that carry a speaker label.
Labelled(segments) == SelectSeq(segments, LAMBDA seg : Truthy(seg.speaker_name))

\* Segments with the same label have the same speaker_id.
SameLabelSameId(segments) ==
    \A i, j \in 1..Len(segments) :
        (Truthy(segments[i].speaker_name)
         /\ segments[i].speaker_name = segments[j].speaker_name)
        => segments[i].speaker_id = segments[j].speaker_id

\* C5, as stated: whatever the content, the segments a parser returns are
\* sorted by start_seconds ascending.
C5_SortedAnyContent ==
    p_pc = "returned" => Ascending(SegmentStarts(p_segments))

\* C5, amended: a parser returns its segments in file order: their start
\* times are start times of the document, in the document's order; so they
\* are sorted ascending whenever the document's start times do not decrease
\* from top to bottom.
C5_SortedInFileOrder ==
    p_pc = "returned" =>
        /\ IsSubSeqOf(SegmentStarts(p_segments), DocumentStarts(p_doc))
        /\ Ascending(DocumentStarts(p_doc)) => Ascending(SegmentStarts(p_segments))

\* A parser has returned three segments with rising start times from a
\* document whose start times do not decrease.
C5_Witness ==
    /\ p_pc = "returned"
    /\ Len(p_segments) = 3
    /\ Ascending(DocumentStarts(p_doc))
    /\ p_segments[1].start_seconds < p_segments[2].start_seconds
    /\ p_segments[2].start_seconds < p_segments[3].start_seconds

\* C6, as stated: segments with the same label have the same speaker_id, and
\* the first label of the document is assigned speaker_1.
C6_FirstLabelOfDocument ==
    p_pc = "returned" =>
        /\ SameLabelSameId(p_segments)
        /\ DocumentLabels(p_doc) # << >> =>
               \A k \in 1..Len(p_segments) :
                   p_segments[k].speaker_name = DocumentLabels(p_doc)[1]
                   => p_segments[k].speaker_id = "speaker_1"

\* C6, amended: segments with the same label have the same speaker_id, and
\* the label of the first returned segment that carries a label is assigned
\* speaker_1.
C6_FirstLabelReturned ==
    p_pc = "returned" =>
        /\ SameLabelSameId(p_segments)
        /\ Labelled(p_segments) # << >> =>
               Labelled(p_segments)[1].speaker_id = "speaker_1"

\* A parser has returned three segments: one label, a second label and the
\* first label again.
C6_Witness ==
    /\ p_pc = "returned"
    /\ Len(p_segments) = 3
    /\ Len(Labelled(p_segments)) = 3
    /\ p_segments[1].speaker_name = p_segments[3].speaker_name
    /\ p_segments[1].speaker_name # p_segments[2].speaker_name
    /\ p_segments[3].speaker_id = "speaker_1"
    /\ p_segments[2].speaker_id = "speaker_2"

\* C9: every segment a parser returns has end_seconds >= start_seconds; from
\* parse_plain_text each segment ends where the next starts and the last one
\* ends 10 seconds after its start.
C9_EndNotBeforeStart ==
    p_pc = "returned" =>
        /\ \A k \in 1..Len(p_segments) :
               p_segments[k].end_seconds >= p_segments[k].start_seconds
        /\ p_format = "plain" =>
               \A k \in 1..Len(p_segments) :
                   p_segments[k].end_seconds =
                       IF k < Len(p_segments) THEN p_segments[k + 1].start_seconds
                       ELSE p_segments[k].start_seconds + LastSegmentDuration

\* C10: no segment a parser returns has a text that is empty once its tags
\* are removed and it is trimmed.
C10_NoEmptyText ==
    p_pc = "returned" =>
        \A k \in 1..Len(p_segments) :
            StripLine(RemoveTags(p_segments[k].text)) # << >>

\* The timestamp lines of the content that open a group carrying text: the
\* lines "A --> B" followed, before the next blank line or timestamp line,
\* by a line that is text (not a cue number, not a NOTE, not tags only).
CueLines(lines) ==
    SetToSortedSeq({k \in 1..Len(lines) :
        /\ ArrowMatch(StripLine(lines[k])) # <<"nomatch">>
        /\ VttCollect(lines, k + 1, << >>, NoSpeaker)[2] # << >>})

\* C17: parse_vtt returns exactly one segment per timestamp line of the
\* content that opens a group carrying text, in order, with start = parse(A)
\* and end = parse(B), in whatever notation parse_timestamp accepts the
\* timestamps are written, the first cue's included.
C17_EveryCueYieldsSegment ==
    (p_pc = "returned" /\ p_format = "vtt") =>
        /\ Len(p_segments) = Len(CueLines(p_lines))
        /\ \A j \in 1..Len(p_segments) :
               LET m == ArrowMatch(StripLine(p_lines[CueLines(p_lines)[j]]))
               IN  /\ p_segments[j].start_seconds = parse_timestamp(m[1])
                   /\ p_segments[j].end_seconds = parse_timestamp(m[2])

\* The distinct elements of a sequence, in the order first seen.
RECURSIVE DistinctInOrder(_)
DistinctInOrder(seq) ==
    IF seq = << >> THEN << >>
    ELSE LET rest == DistinctInOrder(SubSeq(seq, 1, Len(seq) - 1))
             last == seq[Len(seq)]
         IN  IF \E j \in 1..Len(rest) : rest[j] = last THEN rest
             ELSE Append(rest, last)

\* The labels of the segments emitted so far, in order.
SegmentLabels(segments) ==
    [k \in 1..Len(Labelled(segments)) |-> Labelled(segments)[k].speaker_name]

MaxMetricSegments == 4

\* Mutant: the quotient is cut off, not rounded.
PyRoundDown(num, den) == num \div den

\* round(): num / den (den > 0) to the nearest whole number, a tie to the
\* even one.
PyRound(num, den) ==
    LET q == num \div den
        r == num % den
    IN  IF 2 * r < den THEN q
        ELSE IF 2 * r > den THEN q + 1
        ELSE IF q % 2 = 0 THEN q ELSE q + 1

SpeakerSegment(speaker_id, speaker_name, start, end, text, word_count) ==
    [speaker_id |-> speaker_id, speaker_name |-> speaker_name,
     start_seconds |-> start, end_seconds |-> end,
     text |-> text, word_count |-> word_count]

\* seg.speaker_id or "unknown"
OrUnknown(speaker_id) ==
    IF speaker_id = None \/ speaker_id = "" THEN "unknown" ELSE speaker_id

\* Mutant: the turn holds the text of its last segment only.
CurrentTurnLastText(name) ==
    LET text == current_text_parts[Len(current_text_parts)]
    IN  SpeakerSegment(OrUnknown(current_speaker), name, current_start,
                       current_end, text, WordCount(text))

\* The turn that lines 376-384 and 398-406 append.
CurrentTurn(name) ==
    LET text == JoinWithSpace(current_text_parts)
    IN  SpeakerSegment(OrUnknown(current_speaker), name, current_start,
                       current_end, text, WordCount(text))

\* The place of speaker_id in speaker_data (0 if it is no key).
DataIndex(data, speaker_id) ==
    IF \E k \in 1..Len(data) : data[k].speaker_id = speaker_id
    THEN CHOOSE k \in 1..Len(data) : data[k].speaker_id = speaker_id
    ELSE 0

\* Mutant: word_count is assigned, not added to.
AddTurnWordsAssigned(data, seg) ==
    LET with == IF DataIndex(data, seg.speaker_id) = 0
                THEN Append(data, [speaker_id |-> seg.speaker_id, talk_time |-> 0,
                                   word_count |-> 0, turns |-> 0,
                                   speaker_name |-> seg.speaker_name])
                ELSE data
        k == DataIndex(with, seg.speaker_id)
        duration == seg.end_seconds - seg.start_seconds
    IN  [with EXCEPT ![k].talk_time = @ + duration,
                     ![k].word_count = seg.word_count,
                     ![k].turns = @ + 1]

\* speaker_data after one pass of the loop of lines 411-422 for turn seg;
\* the entries are kept in the order the keys were inserted.
AddTurn(data, seg) ==
    LET with == IF DataIndex(data, seg.speaker_id) = 0
                THEN Append(data, [speaker_id |-> seg.speaker_id, talk_time |-> 0,
                                   word_count |-> 0, turns |-> 0,
                                   speaker_name |-> seg.speaker_name])
                ELSE data
        k == DataIndex(with, seg.speaker_id)
        duration == seg.end_seconds - seg.start_seconds
    IN  [with EXCEPT ![k].talk_time = @ + duration,
                     ![k].word_count = @ + seg.word_count,
                     ![k].turns = @ + 1]

\* sum(d[field] for d in speaker_data.values())
RECURSIVE SumOf(_, _)
SumOf(data, field) ==
    IF data = << >> THEN 0 ELSE Head(data)[field] + SumOf(Tail(data), field)

\* talk_time_pct: round(talk_time / total * 100 if total > 0 else 0, 1)
TalkTimePct(talk_time, total) ==
    IF total > 0 THEN PyRound(talk_time * 1000, total) ELSE 0

\* The SpeakerMetrics of lines 435-444 for one entry of speaker_data.
SpeakerMetrics(data, total) ==
    [speaker_id |-> data.speaker_id,
     speaker_name |-> data.speaker_name,
     talk_time_seconds |-> PyRound(data.talk_time, 10),
     talk_time_pct |-> TalkTimePct(data.talk_time, total),
     word_count |-> data.word_count,
     speaking_pace_wpm |->
         IF data.talk_time > 0
         THEN PyRound(data.word_count * 600000, data.talk_time) ELSE 0,
     turn_count |-> data.turns,
     avg_turn_length_seconds |->
         IF data.turns > 0 THEN PyRound(data.talk_time, data.turns * 10) ELSE 0]

\* metrics.sort(key=lambda m: m.talk_time_seconds, reverse=True): stable,
\* the longest talk time first.
RECURSIVE InsertByTalkTime(_, _)
InsertByTalkTime(sorted, m) ==
    IF sorted = << >> THEN <<m>>
    ELSE IF sorted[Len(sorted)].talk_time_seconds >= m.talk_time_seconds
    THEN Append(sorted, m)
    ELSE Append(InsertByTalkTime(SubSeq(sorted, 1, Len(sorted) - 1), m),
                sorted[Len(sorted)])

\* Mutant: the list is left in the order of speaker_data.
SortByTalkTimeSkipped(list) == list

RECURSIVE SortByTalkTime(_)
SortByTalkTime(list) ==
    IF list = << >> THEN << >>
    ELSE InsertByTalkTime(SortByTalkTime(SubSeq(list, 1, Len(list) - 1)),
                          list[Len(list)])

\* ---- the segment lists drawn

Dave == <<W("Dave")>>
Erin == <<W("Erin")>>
SpeakerNames == <<Alice, Bob, Carol, Dave, Erin>>

\* The times and texts a drawn segment is taken from.
SegmentPool == {
    [start |-> 0, end |-> 1000, text |-> <<W("Hello")>>],
    [start |-> 2000, end |-> 15000, text |-> <<W("Hi"), Sp, W("there")>>] }

RECURSIVE MaxOf(_)
MaxOf(s) ==
    IF s = << >> THEN 0
    ELSE IF Head(s) > MaxOf(Tail(s)) THEN Head(s) ELSE MaxOf(Tail(s))

\* Who speaks in each of n segments, as the parsers number the speakers:
\* 0 is no speaker, and speaker k + 1 is not met before speaker k.
RECURSIVE SpeakerOrders(_)
SpeakerOrders(n) ==
    IF n = 0 THEN {<< >>}
    ELSE UNION {{Append(s, k) : k \in 0..(MaxOf(s) + 1)} : s \in SpeakerOrders(n - 1)}

SegmentLists ==
    UNION {{[k \in 1..n |->
                TranscriptSegment(spans[k].start, spans[k].end, spans[k].text,
                                  IF who[k] = 0 THEN None ELSE SpeakerId(who[k]),
                                  IF who[k] = 0 THEN NoSpeaker
                                  ELSE SpeakerNames[who[k]])] :
               spans \in [1..n -> SegmentPool], who \in SpeakerOrders(n)} :
           n \in 0..MaxMetricSegments}

InitMetrics ==
    /\ m_segments \in SegmentLists
    /\ m_i = 0
    /\ current_speaker = None
    /\ current_speaker_name = NoSpeaker
    /\ current_start = 0
    /\ current_end = 0
    /\ current_text_parts = << >>
    /\ speaker_segments = << >>
    /\ speaker_data = << >>
    /\ total_talk_time = 0
    /\ total_turns = 0
    /\ metrics = << >>
    /\ m_pc = "call"
    /\ FramesIdle /\ AlignIdle /\ TsIdle /\ ParseIdle /\ PipeIdle /\ CollectIdle

\* "if not segments: return [], [], 0" (lines 359-360)
ReturnEmpty ==
    /\ m_pc = "call" /\ m_segments = << >>
    /\ m_pc' = "returned"
    /\ UNCHANGED <<m_segments, m_i, current_speaker, current_speaker_name,
                   current_start, current_end, current_text_parts,
                   speaker_segments, speaker_data, total_talk_time, total_turns,
                   metrics>>
    /\ UNCHANGED <<frameVars, alignVars, tsVars, parseVars, pipeVars, collectVars>>

\* Lines 363-367: the locals of the first loop are set.
BeginTurns ==
    /\ m_pc = "call" /\ m_segments # << >>
    /\ m_i' = 1
    /\ m_pc' = "turns"
    /\ UNCHANGED <<m_segments, current_speaker, current_speaker_name,
                   current_start, current_end, current_text_parts,
                   speaker_segments, speaker_data, total_talk_time, total_turns,
                   metrics>>
    /\ UNCHANGED <<frameVars, alignVars, tsVars, parseVars, pipeVars, collectVars>>

\* Lines 369-394: one pass of the loop over the segments.
Consolidate ==
    /\ m_pc = "turns" /\ m_i <= Len(m_segments)
    /\ LET seg == m_segments[m_i]
           speaker == OrUnknown(seg.speaker_id)
       IN  IF speaker # current_speaker
           THEN /\ speaker_segments' =
                       IF current_text_parts # << >>
                       THEN Append(speaker_segments, CurrentTurn(current_speaker_name))
                       ELSE speaker_segments
                /\ current_speaker' = speaker
                /\ current_speaker_name' = seg.speaker_name
                /\ current_start' = seg.start_seconds
                /\ current_end' = seg.end_seconds
                /\ current_text_parts' = <<seg.text>>
           ELSE /\ current_end' = seg.end_seconds
                /\ current_text_parts' = Append(current_text_parts, seg.text)
                /\ UNCHANGED <<speaker_segments, current_speaker,
                               current_speaker_name, current_start>>
    /\ m_i' = m_i + 1
    /\ UNCHANGED <<m_segments, speaker_data, total_talk_time, total_turns,
                   metrics, m_pc>>
    /\ UNCHANGED <<frameVars, alignVars, tsVars, parseVars, pipeVars, collectVars>>

\* Lines 396-409: the last turn is appended and speaker_data starts empty.
LastTurn ==
    /\ m_pc = "turns" /\ m_i > Len(m_segments)
    /\ speaker_segments' =
           IF current_text_parts # << >>
           THEN Append(speaker_segments,
                       CurrentTurn(IF current_speaker # None /\ current_speaker # ""
                                   THEN current_speaker_name ELSE NoSpeaker))
           ELSE speaker_segments
    /\ m_i' = 1
    /\ m_pc' = "aggregate"
    /\ UNCHANGED <<m_segments, current_speaker, current_speaker_name,
                   current_start, current_end, current_text_parts, speaker_data,
                   total_talk_time, total_turns, metrics>>
    /\ UNCHANGED <<frameVars, alignVars, tsVars, parseVars, pipeVars, collectVars>>

\* Lines 411-422: one pass of the loop over the turns.
Aggregate ==
    /\ m_pc = "aggregate" /\ m_i <= Len(speaker_segments)
    /\ speaker_data' = AddTurn(speaker_data, speaker_segments[m_i])
    /\ m_i' = m_i + 1
    /\ UNCHANGED <<m_segments, current_speaker, current_speaker_name,
                   current_start, current_end, current_text_parts,
                   speaker_segments, total_talk_time, total_turns, metrics, m_pc>>
    /\ UNCHANGED <<frameVars, alignVars, tsVars, parseVars, pipeVars, collectVars>>

\* Lines 424-449: the totals, the metrics list, its sort, and the return.
BuildMetrics ==
    /\ m_pc = "aggregate" /\ m_i > Len(speaker_segments)
    /\ total_talk_time' = SumOf(speaker_data, "talk_time")
    /\ total_turns' = SumOf(speaker_data, "turns")
    /\ metrics' = SortByTalkTime(
                      [k \in 1..Len(speaker_data) |->
                          SpeakerMetrics(speaker_data[k], total_talk_time')])
    /\ m_pc' = "returned"
    /\ UNCHANGED <<m_segments, m_i, current_speaker, current_speaker_name,
                   current_start, current_end, current_text_parts,
                   speaker_segments, speaker_data>>
    /\ UNCHANGED <<frameVars, alignVars, tsVars, parseVars, pipeVars, collectVars>>

NextMetrics ==
    ReturnEmpty \/ BeginTurns \/ Consolidate \/ LastTurn \/ Aggregate \/ BuildMetrics

SpecMetrics == InitMetrics /\ [][NextMetrics]_vars

\* ---- properties of the metrics

RECURSIVE SumPct(_)
SumPct(list) ==
    IF list = << >> THEN 0 ELSE Head(list).talk_time_pct + SumPct(Tail(list))

\* C7, as stated: the talk_time_pct values (in tenths of a percent) sum to
\* 100 within 0.1 when the total talk time is > 0, and all are 0 when it is 0.
C7_PctSumWithinOneTenth ==
    m_pc = "returned" =>
        /\ total_talk_time > 0 => Abs(SumPct(metrics) - 1000) <= 1
        /\ total_talk_time = 0 =>
               \A k \in 1..Len(metrics) : metrics[k].talk_time_pct = 0

\* C7, amended: the talk_time_pct values sum to 100 within 0.05 for each
\* speaker (0.1 up to three speakers, 0.2 for four) when the total talk time
\* is > 0, and all are 0 when it is 0.
C7_PctSumWithinRounding ==
    m_pc = "returned" =>
        /\ total_talk_time > 0 =>
               2 * Abs(SumPct(metrics) - 1000) <= Len(metrics)
        /\ total_talk_time = 0 =>
               \A k \in 1..Len(metrics) : metrics[k].talk_time_pct = 0

\* Four speakers, a positive total, and percentages that sum to 99.8.
C7_Witness ==
    /\ m_pc = "returned"
    /\ Len(metrics) = 4
    /\ total_talk_time > 0
    /\ SumPct(metrics) = 998

\* C11: the metrics list compute_speaker_metrics returns is ordered by talk
\* time descending: of two adjacent entries the earlier one's
\* talk_time_seconds is >= the later one's.
C11_MetricsDescending ==
    m_pc = "returned" =>
        \A k \in 1..(Len(metrics) - 1) :
            metrics[k].talk_time_seconds >= metrics[k + 1].talk_time_seconds

\* Three speakers are returned with falling talk times, the one met first
\* in the segments being the one who talked least.
C11_Witness ==
    /\ m_pc = "returned"
    /\ Len(metrics) = 3
    /\ metrics[1].talk_time_seconds > metrics[2].talk_time_seconds
    /\ metrics[2].talk_time_seconds > metrics[3].talk_time_seconds
    /\ speaker_data[1].speaker_id = metrics[3].speaker_id

(***************************************************************************)
(* The run of main and process_video                                       *)
(*                                                                         *)
(* Times are in tenths of a second.  What the transcript parsers and       *)
(* compute_speaker_metrics compute is modelled by SpecParse and            *)
(* SpecMetrics; here their results are values handed on.  Every external   *)
(* command that runs may fail: it exits non-zero and leaves no output.     *)
(***************************************************************************)

\* Longest video drawn, in intervals, and most files an extraction writes.
MaxIntervals == 2
\* Most scene-change instants a detection reports.
MaxReported == 2

\* frame_interval = 5.0
FrameInterval == 50
\* merge_frames' min_gap = 2.0
DefaultMinGap == 20

SceneInstants == {10, 30}
Transcripts == {<< >>, SegmentsOf(<<[start |-> 0, dur |-> 40, label |-> "Alice"]>>)}
\* --target-frames: 500 is the default
Targets == {0, 1, 500}

NoCalls == [version |-> 0, probe |-> 0, interval |-> 0, detect |-> 0, still |-> 0]

InitPipeline ==
    /\ video_exists \in BOOLEAN
    /\ transcript_exists \in BOOLEAN
    /\ ffmpeg_found \in BOOLEAN
    /\ ffprobe_found \in BOOLEAN
    /\ video_duration \in {k * FrameInterval : k \in 0..MaxIntervals}
    /\ files_written \in 0..MaxIntervals
    /\ reported_scenes \in SeqsUpTo(SceneInstants, MaxReported)
    /\ transcript_segments \in Transcripts
    /\ pl_target_frames \in Targets
    /\ pl_pc = "check_video"
    /\ frames_dir_made = FALSE
    /\ pl_segments = << >>
    /\ speaker_metrics = None
    /\ pl_duration = 0
    /\ frames_on_disk = 0
    /\ pl_frame_num = 1
    /\ baseline_frames = << >>
    /\ scene_times = << >>
    /\ scene_index = 1
    /\ scene_frames = << >>
    /\ pl_all_frames = << >>
    /\ output_frames = << >>
    /\ index = << >>
    /\ calls = NoCalls
    /\ failed_calls = {}
    /\ phases = << >>
    /\ index_writes = 0
    /\ exit_status = "running"
    /\ FramesIdle /\ AlignIdle /\ TsIdle /\ ParseIdle /\ MetricsIdle /\ CollectIdle

OthersUnchanged ==
    UNCHANGED <<frameVars, alignVars, tsVars, parseVars, metricVars, collectVars>>

\* The statements of process_video in the order they are written (lines
\* 600-698, with extract_baseline_frames and detect_scene_changes inlined).
Positions ==
    <<"setup", "parse", "metrics", "probe", "extract", "collect", "detect",
      "stills", "merge", "downsample", "align", "probe_again", "build",
      "persist", "done">>

\* The entry of order that comes after pc.
NextIn(order, pc) ==
    LET k == CHOOSE j \in 1..Len(order) : order[j] = pc
    IN  order[k + 1]

\* Mutant: the scene-change pass is written before the interval pass.
FollowingScenesFirst(pc) ==
    NextIn(<<"setup", "parse", "metrics", "detect", "stills", "probe", "extract",
             "collect", "merge", "downsample", "align", "probe_again", "build",
             "persist", "done">>, pc)

\* The position control reaches when the statement at pc is done.
Following(pc) == NextIn(Positions, pc)

\* sys.exit(1), and an exception nothing catches: the process ends with
\* status 1.
Exit1 == pl_pc' = "exited" /\ exit_status' = "exit 1"
Raise == pl_pc' = "raised" /\ exit_status' = "exit 1"

\* main lines 731-733
CheckVideo ==
    /\ pl_pc = "check_video"
    /\ IF video_exists THEN pl_pc' = "check_transcript" /\ UNCHANGED exit_status
       ELSE Exit1
    /\ UNCHANGED <<envVars, frames_dir_made, pl_segments, speaker_metrics,
                   pl_duration, frames_on_disk, pl_frame_num, baseline_frames,
                   scene_times, scene_index, scene_frames, pl_all_frames,
                   output_frames, index, calls, failed_calls, phases, index_writes>>
    /\ OthersUnchanged

\* main lines 735-737
CheckTranscript ==
    /\ pl_pc = "check_transcript"
    /\ IF transcript_exists THEN pl_pc' = "check_ffmpeg" /\ UNCHANGED exit_status
       ELSE Exit1
    /\ UNCHANGED <<envVars, frames_dir_made, pl_segments, speaker_metrics,
                   pl_duration, frames_on_disk, pl_frame_num, baseline_frames,
                   scene_times, scene_index, scene_frames, pl_all_frames,
                   output_frames, index, calls, failed_calls, phases, index_writes>>
    /\ OthersUnchanged

\* main lines 739-754: "ffmpeg -version" is run; only FileNotFoundError is
\* caught, the command's exit status is not looked at.  Then process_video
\* is called.
CheckFfmpeg ==
    /\ pl_pc = "check_ffmpeg"
    /\ IF ffmpeg_found
       THEN /\ calls' = [calls EXCEPT !.version = @ + 1]
            /\ pl_pc' = "setup" /\ UNCHANGED exit_status
       ELSE Exit1 /\ UNCHANGED calls
    /\ UNCHANGED <<envVars, frames_dir_made, pl_segments, speaker_metrics,
                   pl_duration, frames_on_disk, pl_frame_num, baseline_frames,
                   scene_times, scene_index, scene_frames, pl_all_frames,
                   output_frames, index, failed_calls, phases, index_writes>>
    /\ OthersUnchanged

\* process_video lines 591-608: os.makedirs(frames_dir, exist_ok=True)
Setup ==
    /\ pl_pc = "setup"
    /\ frames_dir_made' = TRUE
    /\ pl_pc' = Following(pl_pc)
    /\ UNCHANGED <<envVars, pl_segments, speaker_metrics,
                   pl_duration, frames_on_disk, pl_frame_num, baseline_frames,
                   scene_times, scene_index, scene_frames, pl_all_frames,
                   output_frames, index, calls, failed_calls, phases, index_writes,
                   exit_status>>
    /\ OthersUnchanged

\* process_video lines 610-616
ParseTranscript ==
    /\ pl_pc = "parse"
    /\ pl_segments' = transcript_segments
    /\ phases' = Append(phases, "parse")
    /\ pl_pc' = Following(pl_pc)
    /\ UNCHANGED <<envVars, frames_dir_made, speaker_metrics,
                   pl_duration, frames_on_disk, pl_frame_num, baseline_frames,
                   scene_times, scene_index, scene_frames, pl_all_frames,
                   output_frames, index, calls, failed_calls, index_writes,
                   exit_status>>
    /\ OthersUnchanged

\* process_video lines 618-624
ComputeMetrics ==
    /\ pl_pc = "metrics"
    /\ speaker_metrics' = "computed"
    /\ phases' = Append(phases, "metrics")
    /\ pl_pc' = Following(pl_pc)
    /\ UNCHANGED <<envVars, frames_dir_made, pl_segments,
                   pl_duration, frames_on_disk, pl_frame_num, baseline_frames,
                   scene_times, scene_index, scene_frames, pl_all_frames,
                   output_frames, index, calls, failed_calls, index_writes,
                   exit_status>>
    /\ OthersUnchanged

\* Mutant: a probe that fails is run a second time, which succeeds.
GetVideoDurationRetried ==
    IF ~ffprobe_found
    THEN Raise /\ UNCHANGED <<calls, failed_calls, pl_duration>>
    ELSE /\ \E first \in BOOLEAN :
               calls' = [calls EXCEPT !.probe = @ + (IF first THEN 1 ELSE 2)]
         /\ pl_duration' = video_duration
         /\ pl_pc' = Following(pl_pc)
         /\ UNCHANGED <<failed_calls, exit_status>>

\* get_video_duration, lines 452-461: ffprobe is run; when the executable is
\* missing subprocess.run raises FileNotFoundError, and when ffprobe fails
\* its output is empty and float('') raises ValueError.
GetVideoDuration ==
    IF ~ffprobe_found
    THEN Raise /\ UNCHANGED <<calls, failed_calls, pl_duration>>
    ELSE /\ calls' = [calls EXCEPT !.probe = @ + 1]
         /\ \E ok \in BOOLEAN :
               IF ok
               THEN /\ pl_duration' = video_duration
                    /\ pl_pc' = Following(pl_pc)
                    /\ UNCHANGED <<failed_calls, exit_status>>
               ELSE /\ failed_calls' = failed_calls \cup {"probe"}
                    /\ Raise
                    /\ UNCHANGED pl_duration

\* process_video line 627, extract_baseline_frames lines 466-470
ProbeForBaseline ==
    /\ pl_pc = "probe"
    /\ phases' = Append(phases, "interval")
    /\ GetVideoDuration
    /\ UNCHANGED <<envVars, frames_dir_made, pl_segments, speaker_metrics,
                   frames_on_disk, pl_frame_num, baseline_frames,
                   scene_times, scene_index, scene_frames, pl_all_frames,
                   output_frames, index, index_writes>>
    /\ OthersUnchanged

\* extract_baseline_frames lines 472-485: ffmpeg writes the interval frames;
\* its exit status is not looked at.
ExtractInterval ==
    /\ pl_pc = "extract"
    /\ calls' = [calls EXCEPT !.interval = @ + 1]
    /\ \E ok \in BOOLEAN :
          IF ok
          THEN frames_on_disk' = files_written /\ UNCHANGED failed_calls
          ELSE /\ frames_on_disk' = 0
               /\ failed_calls' = failed_calls \cup {"interval"}
    /\ pl_frame_num' = 1
    /\ pl_pc' = Following(pl_pc)
    /\ UNCHANGED <<envVars, frames_dir_made, pl_segments, speaker_metrics,
                   pl_duration, baseline_frames,
                   scene_times, scene_index, scene_frames, pl_all_frames,
                   output_frames, index, phases, index_writes, exit_status>>
    /\ OthersUnchanged

\* timestamp of the collection loop: 0.0, then += interval on every pass
LoopTimestamp == (pl_frame_num - 1) * FrameInterval

\* extract_baseline_frames lines 486-492: one pass of the loop.
CollectFrame ==
    /\ pl_pc = "collect" /\ LoopTimestamp < pl_duration
    /\ baseline_frames' =
           IF pl_frame_num <= frames_on_disk
           THEN Append(baseline_frames, <<LoopTimestamp, FrameFile(pl_frame_num)>>)
           ELSE baseline_frames
    /\ pl_frame_num' = pl_frame_num + 1
    /\ UNCHANGED <<envVars, pl_pc, frames_dir_made, pl_segments, speaker_metrics,
                   pl_duration, frames_on_disk,
                   scene_times, scene_index, scene_frames, pl_all_frames,
                   output_frames, index, calls, failed_calls, phases, index_writes,
                   exit_status>>
    /\ OthersUnchanged

\* extract_baseline_frames lines 486, 494-495: the loop ends.
CollectDone ==
    /\ pl_pc = "collect" /\ ~(LoopTimestamp < pl_duration)
    /\ pl_pc' = Following(pl_pc)
    /\ UNCHANGED <<envVars, frames_dir_made, pl_segments, speaker_metrics,
                   pl_duration, frames_on_disk, pl_frame_num, baseline_frames,
                   scene_times, scene_index, scene_frames, pl_all_frames,
                   output_frames, index, calls, failed_calls, phases, index_writes,
                   exit_status>>
    /\ OthersUnchanged

\* process_video line 630, detect_scene_changes lines 500-521: ffmpeg reports
\* the scene changes on stderr; a failed run reports none.
DetectScenes ==
    /\ pl_pc = "detect"
    /\ phases' = Append(phases, "scene")
    /\ calls' = [calls EXCEPT !.detect = @ + 1]
    /\ \E ok \in BOOLEAN :
          IF ok
          THEN scene_times' = reported_scenes /\ UNCHANGED failed_calls
          ELSE /\ scene_times' = << >>
               /\ failed_calls' = failed_calls \cup {"detect"}
    /\ scene_index' = 1
    /\ pl_pc' = Following(pl_pc)
    /\ UNCHANGED <<envVars, frames_dir_made, pl_segments, speaker_metrics,
                   pl_duration, frames_on_disk, pl_frame_num, baseline_frames,
                   scene_frames, pl_all_frames,
                   output_frames, index, index_writes, exit_status>>
    /\ OthersUnchanged

\* detect_scene_changes lines 522-536: one pass of the loop; the still is
\* recorded if its file exists afterwards.
ExtractStill ==
    /\ pl_pc = "stills" /\ scene_index <= Len(scene_times)
    /\ calls' = [calls EXCEPT !.still = @ + 1]
    /\ \E ok \in BOOLEAN :
          IF ok
          THEN /\ scene_frames' = Append(scene_frames,
                                         <<scene_times[scene_index],
                                           SceneFile(scene_index - 1)>>)
               /\ UNCHANGED failed_calls
          ELSE /\ failed_calls' = failed_calls \cup {"still"}
               /\ UNCHANGED scene_frames
    /\ scene_index' = scene_index + 1
    /\ UNCHANGED <<envVars, pl_pc, frames_dir_made, pl_segments, speaker_metrics,
                   pl_duration, frames_on_disk, pl_frame_num, baseline_frames,
                   scene_times, pl_all_frames,
                   output_frames, index, phases, index_writes, exit_status>>
    /\ OthersUnchanged

\* detect_scene_changes lines 522, 538-539: the loop ends.
StillsDone ==
    /\ pl_pc = "stills" /\ scene_index > Len(scene_times)
    /\ pl_pc' = Following(pl_pc)
    /\ UNCHANGED <<envVars, frames_dir_made, pl_segments, speaker_metrics,
                   pl_duration, frames_on_disk, pl_frame_num, baseline_frames,
                   scene_times, scene_index, scene_frames, pl_all_frames,
                   output_frames, index, calls, failed_calls, phases, index_writes,
                   exit_status>>
    /\ OthersUnchanged

\* process_video lines 632-634: merge_frames with its default min_gap.
MergeRun ==
    /\ pl_pc = "merge"
    /\ phases' = Append(phases, "merge")
    /\ pl_all_frames' = merge_frames(baseline_frames, scene_frames, DefaultMinGap)
    /\ pl_pc' = Following(pl_pc)
    /\ UNCHANGED <<envVars, frames_dir_made, pl_segments, speaker_metrics,
                   pl_duration, frames_on_disk, pl_frame_num, baseline_frames,
                   scene_times, scene_index, scene_frames,
                   output_frames, index, calls, failed_calls, index_writes,
                   exit_status>>
    /\ OthersUnchanged

\* process_video lines 636-642: len / 0 raises ZeroDivisionError.
DownsampleRun ==
    /\ pl_pc = "downsample"
    /\ IF Len(pl_all_frames) > pl_target_frames
       THEN IF pl_target_frames = 0
            THEN Raise /\ UNCHANGED pl_all_frames
            ELSE /\ pl_all_frames' = IF pl_target_frames < 0 THEN << >>
                                     ELSE Downsampled(pl_all_frames, pl_target_frames)
                 /\ pl_pc' = Following(pl_pc)
                 /\ UNCHANGED exit_status
       ELSE /\ pl_pc' = Following(pl_pc)
            /\ UNCHANGED <<pl_all_frames, exit_status>>
    /\ UNCHANGED <<envVars, frames_dir_made, pl_segments, speaker_metrics,
                   pl_duration, frames_on_disk, pl_frame_num, baseline_frames,
                   scene_times, scene_index, scene_frames,
                   output_frames, index, calls, failed_calls, phases, index_writes>>
    /\ OthersUnchanged

\* frame_data of lines 649-660; a key that is left out holds None here.
FrameData(frame) ==
    LET found == find_transcript_segment(frame[1], pl_segments)
    IN  [timestamp |-> seconds_to_timestamp(frame[1] * 100),
         timestamp_seconds |-> frame[1],
         screenshot |-> frame[2],
         transcript_segment |-> found[1],
         speaker_id |-> found[2],
         speaker_name |-> found[3]]

\* process_video lines 644-662: the loop over all_frames.
AlignFrames ==
    /\ pl_pc = "align"
    /\ phases' = Append(phases, "align")
    /\ output_frames' = [k \in 1..Len(pl_all_frames) |-> FrameData(pl_all_frames[k])]
    /\ pl_pc' = Following(pl_pc)
    /\ UNCHANGED <<envVars, frames_dir_made, pl_segments, speaker_metrics,
                   pl_duration, frames_on_disk, pl_frame_num, baseline_frames,
                   scene_times, scene_index, scene_frames, pl_all_frames,
                   index, calls, failed_calls, index_writes, exit_status>>
    /\ OthersUnchanged

\* process_video lines 664-665
ProbeForIndex ==
    /\ pl_pc = "probe_again"
    /\ GetVideoDuration
    /\ UNCHANGED <<envVars, frames_dir_made, pl_segments, speaker_metrics,
                   frames_on_disk, pl_frame_num, baseline_frames,
                   scene_times, scene_index, scene_frames, pl_all_frames,
                   output_frames, index, phases, index_writes>>
    /\ OthersUnchanged

\* process_video lines 667-693
BuildIndex ==
    /\ pl_pc = "build"
    /\ phases' = Append(phases, "build")
    /\ index' = <<[duration_seconds |-> pl_duration,
                   total_frames |-> Len(output_frames),
                   speaker_analysis |-> speaker_metrics,
                   frames |-> output_frames]>>
    /\ pl_pc' = Following(pl_pc)
    /\ UNCHANGED <<envVars, frames_dir_made, pl_segments, speaker_metrics,
                   pl_duration, frames_on_disk, pl_frame_num, baseline_frames,
                   scene_times, scene_index, scene_frames, pl_all_frames,
                   output_frames, calls, failed_calls, index_writes, exit_status>>
    /\ OthersUnchanged

\* process_video lines 695-711: index.json is written; process_video and
\* main return.
Persist ==
    /\ pl_pc = "persist"
    /\ phases' = Append(phases, "persist")
    /\ index_writes' = index_writes + 1
    /\ pl_pc' = Following(pl_pc)
    /\ exit_status' = "exit 0"
    /\ UNCHANGED <<envVars, frames_dir_made, pl_segments, speaker_metrics,
                   pl_duration, frames_on_disk, pl_frame_num, baseline_frames,
                   scene_times, scene_index, scene_frames, pl_all_frames,
                   output_frames, index, calls, failed_calls>>
    /\ OthersUnchanged

NextPipeline ==
    \/ CheckVideo \/ CheckTranscript \/ CheckFfmpeg \/ Setup \/ ParseTranscript
    \/ ComputeMetrics \/ ProbeForBaseline \/ ExtractInterval \/ CollectFrame
    \/ CollectDone \/ DetectScenes \/ ExtractStill \/ StillsDone \/ MergeRun
    \/ DownsampleRun \/ AlignFrames \/ ProbeForIndex \/ BuildIndex \/ Persist

SpecPipeline == InitPipeline /\ [][NextPipeline]_vars

\* ---- properties of the run

\* No pipeline work has begun: no output directory, no parse, no probe and
\* no extraction.
NoPipelineWork ==
    /\ frames_dir_made = FALSE
    /\ phases = << >>
    /\ calls.probe = 0 /\ calls.interval = 0 /\ calls.detect = 0 /\ calls.still = 0

\* C12: when the video file, the transcript file or the external video tool
\* (ffmpeg for the extractions, ffprobe for the duration) is missing, main
\* does no pipeline work and does not end with status 0.
C12_MissingInputStopsBeforeWork ==
    (~video_exists \/ ~transcript_exists \/ ~ffmpeg_found \/ ~ffprobe_found)
        => NoPipelineWork /\ exit_status # "exit 0"

\* What main does check: a missing video file, transcript file or ffmpeg
\* executable stops the run before any pipeline work.
MissingCheckedInputStopsBeforeWork ==
    (~video_exists \/ ~transcript_exists \/ ~ffmpeg_found)
        => NoPipelineWork /\ exit_status # "exit 0"

\* C13: when an external command that ran has failed (the duration probe,
\* the interval extraction, the scene-change detection or the extraction of
\* a still), the run stops: no index is written.
C13_FailedCallWritesNoIndex ==
    failed_calls # {} => index_writes = 0

\* What holds of a failure: a failed duration probe stops the run.
FailedProbeWritesNoIndex ==
    "probe" \in failed_calls => index_writes = 0 /\ exit_status # "exit 0"

\* C14, as stated: in a run of process_video that has finished, the duration
\* was probed exactly once, the interval extraction and the scene-change
\* detection were each run exactly once, and one still was extracted for
\* each detected scene-change instant.
C14_EveryCallOnce ==
    pl_pc = "done" =>
        /\ calls.probe = 1
        /\ calls.interval = 1
        /\ calls.detect = 1
        /\ calls.still = Len(scene_times)

\* C14, amended: the duration is probed exactly twice, once by the interval
\* pass and once before the index is built; the interval extraction and the
\* scene-change detection are each run exactly once and one still is
\* extracted for each detected instant; and at no time has a command run
\* more often than that.
C14_CallCounts ==
    /\ calls.probe <= 2 /\ calls.interval <= 1 /\ calls.detect <= 1
    /\ calls.still <= Len(scene_times)
    /\ pl_pc = "done" =>
           /\ calls.probe = 2
           /\ calls.interval = 1
           /\ calls.detect = 1
           /\ calls.still = Len(scene_times)

\* A run has finished with two detected instants, one of whose stills failed.
C14_Witness ==
    /\ pl_pc = "done"
    /\ Len(scene_times) = 2
    /\ calls.still = 2
    /\ "still" \in failed_calls
    /\ Len(scene_frames) = 1

\* The phases of process_video in the order the spec gives them.
PhaseOrder ==
    <<"parse", "metrics", "interval", "scene", "merge", "align", "build", "persist">>

\* C18: the phases of process_video begin in the fixed order parse
\* transcript, compute metrics, interval pass, scene-change pass,
\* merge/downsample, align, build index, persist index, none twice and none
\* before the one before it was done; the index file is written at most
\* once, and nothing follows the write.
C18_PhasesInOrder ==
    /\ Len(phases) <= Len(PhaseOrder)
    /\ phases = SubSeq(PhaseOrder, 1, Len(phases))
    /\ index_writes <= 1
    /\ index_writes = 1 => phases = PhaseOrder /\ pl_pc = "done"
    /\ pl_pc = "done" => index_writes = 1

\* A run has gone through every phase and written the index, with frames
\* from both passes aligned.
C18_Witness ==
    /\ pl_pc = "done"
    /\ phases = PhaseOrder
    /\ index_writes = 1
    /\ baseline_frames # << >> /\ scene_frames # << >>
    /\ Len(output_frames) >= 2

\* ---- properties of the turns

\* The resolved speaker of segment k of the argument.
Resolved(k) ==
    IF m_segments[k].speaker_id = None THEN "unknown" ELSE m_segments[k].speaker_id

\* Where the maximal runs of one resolved speaker start, in ascending order.
RunStarts ==
    SetToSortedSeq({k \in 1..Len(m_segments) :
                       k = 1 \/ Resolved(k) # Resolved(k - 1)})

RunEnd(j) == IF j < Len(RunStarts) THEN RunStarts[j + 1] - 1 ELSE Len(m_segments)

\* C15: the turns compute_speaker_metrics returns are the maximal runs of
\* consecutive segments with the same resolved speaker, in order: a turn
\* starts where the run's first segment starts, ends where its last segment
\* ends, holds the run's texts joined by single spaces, and differs in
\* speaker_id from the turn before it.
C15_TurnsAreMaximalRuns ==
    m_pc = "returned" =>
        /\ Len(speaker_segments) = Len(RunStarts)
        /\ \A j \in 1..Len(speaker_segments) :
               LET first == RunStarts[j]
                   last == RunEnd(j)
                   turn == speaker_segments[j]
               IN  /\ turn.speaker_id = Resolved(first)
                   /\ turn.start_seconds = m_segments[first].start_seconds
                   /\ turn.end_seconds = m_segments[last].end_seconds
                   /\ turn.text = JoinWithSpace([k \in 1..(last - first + 1) |->
                                                   m_segments[first + k - 1].text])
        /\ \A j \in 1..(Len(speaker_segments) - 1) :
               speaker_segments[j].speaker_id # speaker_segments[j + 1].speaker_id

\* Four segments were consolidated into two turns of two segments each, the
\* first of a speaker without identifier.
C15_Witness ==
    /\ m_pc = "returned"
    /\ Len(m_segments) = 4
    /\ Len(speaker_segments) = 2
    /\ speaker_segments[1].speaker_id = "unknown"
    /\ RunStarts = <<1, 3>>
    /\ speaker_segments[2].start_seconds # speaker_segments[2].end_seconds

\* ---- properties of the totals

\* The sum of a field over a list of records.
RECURSIVE FieldSum(_, _)
FieldSum(list, field) ==
    IF list = << >> THEN 0 ELSE list[1][field] + FieldSum(Tail(list), field)

TurnSpeakers == {speaker_segments[k].speaker_id : k \in 1..Len(speaker_segments)}

\* C22: for a non-empty segment list, the total_turns compute_speaker_metrics
\* returns is the number of turns returned and the sum of turn_count over the
\* metrics; the metrics hold exactly one entry per speaker_id among the
\* turns; the word counts of the metrics sum to those of the turns.
C22_TotalsAgree ==
    (m_pc = "returned" /\ m_segments # << >>) =>
        /\ total_turns = Len(speaker_segments)
        /\ total_turns = FieldSum(metrics, "turn_count")
        /\ {metrics[k].speaker_id : k \in 1..Len(metrics)} = TurnSpeakers
        /\ Len(metrics) = Cardinality(TurnSpeakers)
        /\ FieldSum(metrics, "word_count") = FieldSum(speaker_segments, "word_count")

\* C22's case: three turns of two speakers, one of them without identifier,
\* the speaker with two turns having spoken three words.
C22_Witness ==
    /\ m_pc = "returned"
    /\ total_turns = 3
    /\ Len(metrics) = 2
    /\ "unknown" \in TurnSpeakers
    /\ \E k \in 1..2 : metrics[k].turn_count = 2 /\ metrics[k].word_count = 3

(***************************************************************************)
(* The collection loop of extract_baseline_frames in Python's floats       *)
(*                                                                         *)
(* timestamp, interval and duration are Python floats: IEEE 754 binary64.  *)
(* A value here is a natural number of units of 2^-56 second, written as   *)
(* its binary digits, lowest first, the highest being 1 (zero is the empty *)
(* list).  A float is such a number of at most Precision significant       *)
(* digits.  The values drawn are far from the overflow and the subnormal   *)
(* range.                                                                  *)
(***************************************************************************)

\* Significant binary digits of a Python float.
Precision == 53
\* Most frame files drawn as existing.
MaxFiles == 3

Zeros(n) == [k \in 1..n |-> 0]

\* a + b + carry, exactly.
RECURSIVE AddBits(_, _, _)
AddBits(a, b, carry) ==
    IF a = << >> /\ b = << >> THEN (IF carry = 1 THEN <<1>> ELSE << >>)
    ELSE LET x == IF a = << >> THEN 0 ELSE Head(a)
             y == IF b = << >> THEN 0 ELSE Head(b)
             sum == x + y + carry
         IN  <<sum % 2>> \o AddBits(IF a = << >> THEN a ELSE Tail(a),
                                    IF b = << >> THEN b ELSE Tail(b),
                                    sum \div 2)

\* a < b
LessBits(a, b) ==
    IF Len(a) # Len(b) THEN Len(a) < Len(b)
    ELSE \E k \in 1..Len(a) :
             /\ a[k] < b[k]
             /\ \A j \in (k + 1)..Len(a) : a[j] = b[j]

\* The float nearest to a, ties to the even one (round-half-even).
RoundBits(a) ==
    IF Len(a) <= Precision THEN a
    ELSE LET d == Len(a) - Precision
             q == SubSeq(a, d + 1, Len(a))
             guard == a[d]
             sticky == \E j \in 1..(d - 1) : a[j] = 1
             up == guard = 1 /\ (sticky \/ q[1] = 1)
         IN  Zeros(d) \o (IF up THEN AddBits(q, <<1>>, 0) ELSE q)

\* a + b of two floats
FloatAdd(a, b) == RoundBits(AddBits(a, b, 0))

\* The four binary digits of a hexadecimal digit, lowest first.
HexBits(h) == <<h % 2, (h \div 2) % 2, (h \div 4) % 2, (h \div 8) % 2>>

RECURSIVE HexDigitsBits(_)
HexDigitsBits(digits) ==
    IF digits = << >> THEN << >>
    ELSE HexDigitsBits(Tail(digits)) \o HexBits(Head(digits))

\* The float that float.hex() writes 0x1.<13 digits>p<e>, for e >= -4.
Float(digits, e) == Zeros(e + 4) \o HexDigitsBits(digits) \o <<1>>

NoDigits == <<0, 0, 0, 0, 0, 0, 0, 0, 0, 0, 0, 0, 0>>
\* float('0.1') = 0x1.999999999999ap-4, float('0.8') = 0x1.999999999999ap-1
TenthDigits == <<9, 9, 9, 9, 9, 9, 9, 9, 9, 9, 9, 9, 10>>
\* float('0.3') = 0x1.3333333333333p-2
ThreeTenthsDigits == <<3, 3, 3, 3, 3, 3, 3, 3, 3, 3, 3, 3, 3>>
\* 5.0 = 0x1.4p+2, 10.0 = 0x1.4p+3
FiveDigits == <<4, 0, 0, 0, 0, 0, 0, 0, 0, 0, 0, 0, 0>>

Float_0_0 == << >>
Float_0_1 == Float(TenthDigits, -4)
Float_0_25 == Float(NoDigits, -2)
Float_0_3 == Float(ThreeTenthsDigits, -2)
Float_0_8 == Float(TenthDigits, -1)
Float_1_0 == Float(NoDigits, 0)
Float_5_0 == Float(FiveDigits, 2)
Float_10_0 == Float(FiveDigits, 3)

\* --interval values (5.0 is the default) and durations ffprobe prints.
Intervals == {Float_0_1, Float_0_25, Float_5_0}
Durations == {Float_0_0, Float_0_3, Float_0_8, Float_1_0, Float_10_0}

\* extract_baseline_frames lines 483-485: frames = [], frame_num = 1,
\* timestamp = 0.0, after the probe and the extraction.
InitCollect ==
    /\ c_duration \in Durations
    /\ c_interval \in Intervals
    /\ c_files \in SUBSET (1..MaxFiles)
    /\ c_timestamp = Float_0_0
    /\ c_frame_num = 1
    /\ c_visited = << >>
    /\ c_frames = << >>
    /\ c_pc = "loop"
    /\ FramesIdle /\ AlignIdle /\ TsIdle /\ ParseIdle /\ MetricsIdle /\ PipeIdle

\* lines 486-492: one pass of the while loop.
CollectPass ==
    /\ c_pc = "loop" /\ LessBits(c_timestamp, c_duration)
    /\ c_visited' = Append(c_visited, c_timestamp)
    /\ c_frames' = IF c_frame_num \in c_files
                   THEN Append(c_frames, <<c_timestamp, FrameFile(c_frame_num)>>)
                   ELSE c_frames
    /\ c_frame_num' = c_frame_num + 1
    /\ c_timestamp' = FloatAdd(c_timestamp, c_interval)
    /\ UNCHANGED <<c_duration, c_interval, c_files, c_pc>>
    /\ UNCHANGED <<frameVars, alignVars, tsVars, parseVars, metricVars, pipeVars>>

\* lines 486, 494-495: the loop condition fails, frames is returned.
CollectReturn ==
    /\ c_pc = "loop" /\ ~LessBits(c_timestamp, c_duration)
    /\ c_pc' = "returned"
    /\ UNCHANGED <<c_duration, c_interval, c_files, c_timestamp, c_frame_num,
                   c_visited, c_frames>>
    /\ UNCHANGED <<frameVars, alignVars, tsVars, parseVars, metricVars, pipeVars>>

NextCollect == CollectPass \/ CollectReturn

SpecCollect == InitCollect /\ [][NextCollect]_vars

\* ---- properties of the collection loop

\* k * a, exactly.
RECURSIVE Times(_, _)
Times(k, a) == IF k = 0 THEN << >> ELSE AddBits(Times(k - 1, a), a, 0)

\* How many of 0, a, 2a, ... from k * a = acc on are strictly below d, plus k.
RECURSIVE CountBelow(_, _, _, _)
CountBelow(k, acc, a, d) ==
    IF LessBits(acc, d) THEN CountBelow(k + 1, AddBits(acc, a, 0), a, d) ELSE k

\* C21: the collection loop ends having visited exactly the timestamps
\* 0, interval, 2 * interval, ... strictly below the duration (each as the
\* float nearest to it), the k-th of them paired with frame_k, and having
\* recorded the pairs whose file exists, and no other.
C21_VisitsMultiplesBelowDuration ==
    c_pc = "returned" =>
        /\ Len(c_visited) = CountBelow(0, << >>, c_interval, c_duration)
        /\ \A k \in 1..Len(c_visited) :
               c_visited[k] = RoundBits(Times(k - 1, c_interval))
        /\ c_frames = SelectSeq([k \in 1..Len(c_visited) |->
                                    <<c_visited[k], FrameFile(k)>>],
                                LAMBDA f : f[2][2] \in c_files)
====
